---- MODULE Spec2Model ----
(***************************************************************************)
(* Reverse proxy: the LRU+TTL response cache (cache.go) and the per-client *)
(* token-bucket rate limiter (rate limiter source), as state machines.     *)
(*                                                                         *)
(* The cache is modelled at the level of the doubly linked list that       *)
(* container/list keeps (root sentinel, next/prev pointers, the len        *)
(* counter and each element's list back-pointer), because Cache.Get calls  *)
(* MoveToFront while holding only the shared (read) lock: two readers may  *)
(* run the pointer assignments of list.move interleaved, and the outcome   *)
(* is whatever those interleavings produce.                                *)
(***************************************************************************)
EXTENDS Integers, Sequences, FiniteSets, TLC

\* ------------------------------------------------------------------ bounds
MaxTime == 3          \* the clock runs 0..MaxTime (seconds)
MaxCapacity == 2      \* cache capacities 0..MaxCapacity are tried
MaxCalls == 3         \* calls each task makes in the concurrent scenario

\* ------------------------------------------------------------ value spaces
Tasks == {"t1", "t2", "t3"}

\* requests: method, URL (path and raw query) and one request header
Methods == {"GET", "POST"}
URLs == {[path |-> "/a", query |-> ""], [path |-> "/a", query |-> "x=1"]}
Accepts == {"json", "html"}

\* url.URL.String() of a request URL: the path, then "?" and the raw query if there is one
URLString(u) == IF u.query = "" THEN u.path ELSE u.path \o "?" \o u.query

\* (mutant) a key that leaves the query out
generateCacheKeyPathOnly(req) == req.method \o "|" \o req.url.path

\* generateCacheKey(req): req.Method + "|" + req.URL.String()
generateCacheKey(req) == req.method \o "|" \o URLString(req.url)

\* the keys of the cache unit tests, and every key a request can have
TestKeys == {"k1", "k2", "k3"}
Keys == TestKeys \cup {m \o "|" \o URLString(u) : m \in Methods, u \in URLs}
Resps == {"r1", "r2", "r3"}
Ids == {"a", "b"}           \* client identities
RPMs == {0, 30, 60, 120}    \* requests per minute (not validated; 0 never refills)
Bursts == {0, 1, 2, 3}      \* burst sizes (not validated; 0 never admits)
MaxAges == {-1, 0, 1}       \* Cleanup's maxAge, in seconds (TestRateLimiter_Cleanup passes a negative one)
Elems == {"e1", "e2", "e3", "e4", "e5", "e6", "e7"}
TTLs == {1, 2}
Root == "root"
Nil == "nil"
NoKey == "nokey"
NoResp == "noresp"
NoTask == "notask"
Nodes == Elems \cup {Root}

VARIABLES
    cache,   \* the Cache object: capacity, ttl, items, lru (next/prev/inlist/len), entries
    wlock,   \* the task holding c.mutex exclusively, or NoTask
    rlock,   \* the tasks holding c.mutex shared
    pc,      \* each task's position inside the call it is running
    tkey,    \* each task's `key` argument
    tresp,   \* each task's `response` argument
    telem,   \* each task's local `elem`
    ret,     \* what each task's last completed call returned
    now,     \* time.Now(), in seconds
    plan,    \* which calls each task may make (the test scenario)
    horizon, \* the instant at which the observation ends
    touch,   \* history: the stored keys, most recently touched first
    setAt,   \* history: instant and response of the last Set of each stored key
    rl,      \* the RateLimiter object: rpm, burstSize, buckets
    rlret,   \* what the last completed rate limiter call returned
    ledger,  \* history: per identity, the Allow calls granted and refused so far
    rmu,     \* rl.mu: the task holding it exclusively (or NoTask), the tasks holding it shared
    mw,      \* per task, the request being served by rateLimitMiddleware
    request, \* the request being served by the handler chain, or NoReq
    conn,    \* the http.ResponseWriter of the client's connection
    chain,   \* the handler chain: its stages, the serving goroutines' positions and locals
    seen,    \* history: the stages entered, the forwarder's calls, the last exchange per key
    call     \* the pure function being applied: its arguments and, once returned, its result

cacheVars == <<cache, wlock, rlock, pc, tkey, tresp, telem, ret, plan, touch, setAt>>

limiterVars == <<rl, rlret, ledger, rmu, mw>>

pipeVars == <<request, conn, chain, seen>>

\* no pure function is being applied
NoCall == [op |-> "none"]

vars == <<cacheVars, limiterVars, pipeVars, now, horizon, call>>

\* ------------------------------------------------------- container/list
\* list.New(): an empty ring around the root sentinel
EmptyNext == [n \in Nodes |-> IF n = Root THEN Root ELSE Nil]

\* NewCache(capacity, ttlSeconds)
NewCache(capacity, ttlSeconds) ==
    [capacity |-> capacity,
     ttl      |-> ttlSeconds,
     items    |-> [k \in Keys |-> Nil],
     next     |-> EmptyNext,
     prev     |-> EmptyNext,
     inlist   |-> [e \in Elems |-> FALSE],
     len      |-> 0,
     ekey     |-> [e \in Elems |-> NoKey],
     eresp    |-> [e \in Elems |-> NoResp],
     eexp     |-> [e \in Elems |-> 0]]

\* One assignment of list.move(e, at) with at = &l.root:
\*   1: e.prev.next = e.next   2: e.next.prev = e.prev   3: e.prev = at
\*   4: e.next = at.next       5: e.prev.next = e        6: e.next.prev = e
MoveStep(c, e, i) ==
    CASE i = 1 -> [c EXCEPT !.next[c.prev[e]] = c.next[e]]
      [] i = 2 -> [c EXCEPT !.prev[c.next[e]] = c.prev[e]]
      [] i = 3 -> [c EXCEPT !.prev[e] = Root]
      [] i = 4 -> [c EXCEPT !.next[e] = c.next[Root]]
      [] i = 5 -> [c EXCEPT !.next[c.prev[e]] = e]
      [] i = 6 -> [c EXCEPT !.prev[c.next[e]] = e]

\* (mutant) a promotion that is never carried out
MoveNever(c, e) == TRUE

\* list.MoveToFront's guard: if e.list != l || l.root.next == e { return }
MoveIsNoop(c, e) == ~c.inlist[e] \/ c.next[Root] = e

\* list.MoveToFront run without interruption (the caller holds the lock exclusively)
MoveToFront(c, e) ==
    IF MoveIsNoop(c, e) THEN c
    ELSE MoveStep(MoveStep(MoveStep(MoveStep(MoveStep(MoveStep(c, e, 1), e, 2), e, 3), e, 4), e, 5), e, 6)

\* list.PushFront(v) = insert(e, &l.root): e.prev = at; e.next = at.next;
\* e.prev.next = e; e.next.prev = e; e.list = l; l.len++
PushFront(c, e) ==
    LET c1 == [c EXCEPT !.prev[e] = Root]
        c2 == [c1 EXCEPT !.next[e] = c1.next[Root]]
        c3 == [c2 EXCEPT !.next[c2.prev[e]] = e]
        c4 == [c3 EXCEPT !.prev[c3.next[e]] = e]
    IN  [c4 EXCEPT !.inlist[e] = TRUE, !.len = @ + 1]

\* list.Remove(e): if e.list == l { e.prev.next = e.next; e.next.prev = e.prev;
\* e.next = nil; e.prev = nil; e.list = nil; l.len-- }
ListRemove(c, e) ==
    IF ~c.inlist[e] THEN c
    ELSE LET c1 == [c EXCEPT !.next[c.prev[e]] = c.next[e]]
             c2 == [c1 EXCEPT !.prev[c1.next[e]] = c1.prev[e]]
         IN  [c2 EXCEPT !.next[e] = Nil, !.prev[e] = Nil, !.inlist[e] = FALSE, !.len = @ - 1]

\* list.Back(): nil when l.len == 0, else l.root.prev
Back(c) == IF c.len = 0 THEN Nil ELSE c.prev[Root]

\* ---------------------------------------------------------- allocation
\* What the Go runtime keeps alive: the sentinel, the elements linked into the
\* list or named by the map, every element a running call still holds in a
\* local, and whatever those point to.
RECURSIVE Closure(_, _)
Closure(c, S) ==
    LET T == (S \cup {c.next[n] : n \in S} \cup {c.prev[n] : n \in S}) \ {Nil}
    IN  IF T = S THEN S ELSE Closure(c, T)

Live(c, refs) ==
    Closure(c, ({Root} \cup {e \in Elems : c.inlist[e]} \cup refs
                  \cup {c.items[k] : k \in Keys}) \ {Nil})

\* An element that is no longer reachable is garbage: its memory is never
\* read again, so its fields are reset (this keeps the heap finite).
Scrub(c, refs) ==
    LET live == Live(c, refs) IN
    [c EXCEPT !.ekey  = [e \in Elems |-> IF e \in live THEN @[e] ELSE NoKey],
              !.eresp = [e \in Elems |-> IF e \in live THEN @[e] ELSE NoResp],
              !.eexp  = [e \in Elems |-> IF e \in live THEN @[e] ELSE 0],
              !.next  = [n \in Nodes |-> IF n \in live THEN @[n] ELSE Nil],
              !.prev  = [n \in Nodes |-> IF n \in live THEN @[n] ELSE Nil]]

CanAlloc(c, refs) == Elems \ Live(c, refs) # {}

\* &CacheEntry{...} / the list.Element PushFront allocates: a fresh object.
\* Which address the runtime hands out cannot be observed; the model takes the
\* key's own slot when it is free, else any free one.
Slot == [k \in Keys |-> CASE k = "k1" -> "e1" [] k = "k2" -> "e2" [] k = "k3" -> "e3"
                            [] OTHER -> "e4"]

Alloc(c, refs, key) ==
    IF Slot[key] \notin Live(c, refs) THEN Slot[key]
    ELSE CHOOSE e \in Elems : e \notin Live(c, refs)

\* ------------------------------------------------------------ cache.go
\* Cache.Size(): c.lru.Len()
Size(c) == c.len

\* Cache.Stats(): (c.lru.Len(), c.capacity)
Stats(c) == <<c.len, c.capacity>>

\* Cache.removeElement(elem): delete(c.items, entry.Key); c.lru.Remove(elem)
removeElement(c, elem) ==
    ListRemove([c EXCEPT !.items[c.ekey[elem]] = Nil], elem)

\* Cache.evict(): elem := c.lru.Back(); if elem != nil { delete(c.items,
\* entry.Key); c.lru.Remove(elem) }
evict(c) ==
    LET elem == Back(c) IN
    IF elem = Nil THEN c
    ELSE ListRemove([c EXCEPT !.items[c.ekey[elem]] = Nil], elem)

\* evict's elem.Value.(*CacheEntry) panics when Back() is the sentinel itself,
\* whose Value is nil (only a damaged ring has root.prev == root with len > 0)
evictPanics(c) == Back(c) = Root

\* (mutant) the existing-key branch without the expiry reset of line 80
SetExistingKeepExpiry(c, elem, response, t) ==
    MoveToFront([c EXCEPT !.eresp[elem] = response], elem)

\* Cache.Set, the existing-key branch (lines 76-83)
SetExisting(c, elem, response, t) ==
    MoveToFront([c EXCEPT !.eresp[elem] = response, !.eexp[elem] = t + c.ttl], elem)

\* Cache.Set, the new-key branch up to the capacity test (lines 86-93)
SetInsert(c, e, key, response, t) ==
    LET c1 == [c EXCEPT !.ekey[e] = key, !.eresp[e] = response, !.eexp[e] = t + c.ttl]
        c2 == PushFront(c1, e)
    IN  [c2 EXCEPT !.items[key] = e]

\* (mutant) a capacity test that is off by one
OverCapacityOffByOne(c) == c.len > c.capacity + 1

\* (mutant) a capacity test that already evicts when the cache is just full
OverCapacityAtFull(c) == c.len >= c.capacity

\* Cache.Set's capacity test (line 96)
OverCapacity(c) == c.len > c.capacity

\* (mutant) an expiry test that lets an entry live one second too long
ExpiredLate(c, elem, t) == t > c.eexp[elem] + 1

\* Cache.Get's expiry test (line 52): time.Now().After(entry.Expiry)
Expired(c, elem, t) == t > c.eexp[elem]

\* Cache.Clear(): a fresh map and a fresh list; the old elements still belong
\* to the old list, so for c.lru they are foreign (e.list != l)
Clear(c) ==
    [c EXCEPT !.items  = [k \in Keys |-> Nil],
              !.next   = EmptyNext,
              !.prev   = EmptyNext,
              !.inlist = [e \in Elems |-> FALSE],
              !.len    = 0]

\* ------------------------------------------------------------- history
Stored(c) == {k \in Keys : c.items[k] # Nil}

\* the history is kept in the scenarios whose calls are made one at a time
Tracking == \E t \in Tasks : plan[t].mode = "any"

Promote(seq, k) == IF Tracking THEN <<k>> \o SelectSeq(seq, LAMBDA x : x # k) ELSE seq

Restrict(seq, S) == SelectSeq(seq, LAMBDA x : x \in S)

NoRet == [op |-> "none", key |-> NoKey, found |-> FALSE, resp |-> NoResp,
          existed |-> FALSE, expired |-> FALSE, evicted |-> NoKey, panic |-> FALSE]

\* the history of Sets after a call: keys no longer stored are forgotten
Remember(c, k, at, r) ==
    IF Tracking
    THEN [x \in Stored(c) |-> IF x = k \/ x \notin DOMAIN setAt
                              THEN [at |-> at, resp |-> r] ELSE setAt[x]]
    ELSE setAt

Refs == {telem[t] : t \in Tasks} \ {Nil}

\* -------------------------------------------------------------- calls
\* May task t start call op on key k under its plan?
Permitted(t, op, k) ==
    /\ k \in plan[t].keys
    /\ \/ plan[t].mode = "any"
       \/ plan[t].mode = "count" /\ plan[t].left > 0
       \/ plan[t].mode = "set" /\ op = "Set"
       \/ plan[t].mode = "get" /\ op = "Get"

NextMode(m) == IF m = "set" THEN "get" ELSE IF m = "get" THEN "done" ELSE m

\* task t has completed a call
Advance(t) ==
    plan' = [plan EXCEPT ![t].mode = NextMode(@),
                         ![t].left = IF plan[t].mode = "count" THEN @ - 1 ELSE @]

MoveLabels == <<"move1", "move2", "move3", "move4", "move5", "move6">>

\* Cache.Get, lines 44-54 and 67: RLock, the map lookup and the expiry test.
\* A miss returns at once; an expired entry makes the call drop the read lock
\* (line 54) and queue for the write lock; a hit goes on to MoveToFront with
\* the read lock held.
GetCall(t, k) ==
    /\ pc[t] = "idle" /\ Permitted(t, "Get", k)
    /\ wlock = NoTask
    /\ LET elem == cache.items[k] IN
       IF elem = Nil
       THEN /\ ret' = [ret EXCEPT ![t] = [NoRet EXCEPT !.op = "Get", !.key = k]]
            /\ Advance(t)
            /\ UNCHANGED <<cache, rlock, pc, tkey, telem, touch>>
       ELSE IF Expired(cache, elem, now)
       THEN /\ pc' = [pc EXCEPT ![t] = "get_lock"]
            /\ tkey' = [tkey EXCEPT ![t] = k]
            /\ telem' = [telem EXCEPT ![t] = elem]
            /\ UNCHANGED <<cache, rlock, ret, plan, touch>>
       ELSE /\ pc' = [pc EXCEPT ![t] = "get_mtf"]
            /\ tkey' = [tkey EXCEPT ![t] = k]
            /\ telem' = [telem EXCEPT ![t] = elem]
            /\ rlock' = rlock \cup {t}
            /\ touch' = Promote(touch, k)
            /\ UNCHANGED <<cache, ret, plan>>
    /\ UNCHANGED <<wlock, tresp, now, horizon, call, setAt>>
    /\ UNCHANGED <<limiterVars, pipeVars>>

\* Cache.Get line 64 and the deferred RUnlock: return entry.Response, true
GetReturnHit(t) ==
    /\ ret' = [ret EXCEPT ![t] = [NoRet EXCEPT !.op = "Get", !.key = tkey[t],
                                   !.found = TRUE, !.resp = cache.eresp[telem[t]]]]
    /\ rlock' = rlock \ {t}
    /\ telem' = [telem EXCEPT ![t] = Nil]
    /\ tkey' = [tkey EXCEPT ![t] = NoKey]
    /\ pc' = [pc EXCEPT ![t] = "idle"]
    /\ Advance(t)

\* Cache.Get line 63, MoveToFront's guard, read under the shared lock
GetMoveCheck(t) ==
    /\ pc[t] = "get_mtf"
    /\ IF MoveIsNoop(cache, telem[t])
       THEN GetReturnHit(t)
       ELSE /\ pc' = [pc EXCEPT ![t] = MoveLabels[1]]
            /\ UNCHANGED <<rlock, telem, tkey, ret, plan>>
    /\ UNCHANGED <<cache, wlock, tresp, now, horizon, call, touch, setAt>>
    /\ UNCHANGED <<limiterVars, pipeVars>>

\* Cache.Get line 63, one pointer assignment of list.move, under the shared lock
GetMoveStep(t, i) ==
    /\ pc[t] = MoveLabels[i]
    /\ cache' = MoveStep(cache, telem[t], i)
    /\ IF i = 6
       THEN GetReturnHit(t)
       ELSE /\ pc' = [pc EXCEPT ![t] = MoveLabels[i + 1]]
            /\ UNCHANGED <<rlock, telem, tkey, ret, plan>>
    /\ UNCHANGED <<wlock, tresp, now, horizon, call, touch, setAt>>
    /\ UNCHANGED <<limiterVars, pipeVars>>

\* Cache.Get line 55: c.mutex.Lock(), after the read lock was dropped
GetLock(t) ==
    /\ pc[t] = "get_lock"
    /\ wlock = NoTask /\ rlock = {}
    /\ wlock' = t
    /\ pc' = [pc EXCEPT ![t] = "get_remove"]
    /\ UNCHANGED <<cache, rlock, tkey, tresp, telem, ret, now, plan, horizon, call, touch, setAt>>
    /\ UNCHANGED <<limiterVars, pipeVars>>

\* Cache.Get lines 56-59: removeElement(elem), Unlock, RLock, return nil, false
GetRemove(t) ==
    /\ pc[t] = "get_remove"
    /\ LET c1 == removeElement(cache, telem[t]) IN
       /\ cache' = Scrub(c1, Refs \ {telem[t]})
       /\ touch' = Restrict(touch, Stored(c1))
       /\ setAt' = Remember(c1, NoKey, now, NoResp)
    /\ wlock' = NoTask
    /\ ret' = [ret EXCEPT ![t] = [NoRet EXCEPT !.op = "Get", !.key = tkey[t],
                                   !.expired = TRUE]]
    /\ telem' = [telem EXCEPT ![t] = Nil]
    /\ tkey' = [tkey EXCEPT ![t] = NoKey]
    /\ pc' = [pc EXCEPT ![t] = "idle"]
    /\ Advance(t)
    /\ UNCHANGED <<rlock, tresp, now, horizon, call>>
    /\ UNCHANGED <<limiterVars, pipeVars>>

\* Cache.Set line 72: c.mutex.Lock()
SetCall(t, k, r) ==
    /\ pc[t] = "idle" /\ Permitted(t, "Set", k) /\ r \in plan[t].resps
    /\ wlock = NoTask /\ rlock = {}
    /\ wlock' = t
    /\ tkey' = [tkey EXCEPT ![t] = k]
    /\ tresp' = [tresp EXCEPT ![t] = r]
    /\ pc' = [pc EXCEPT ![t] = "set_body"]
    /\ UNCHANGED <<cache, rlock, telem, ret, now, plan, horizon, call, touch, setAt>>
    /\ UNCHANGED <<limiterVars, pipeVars>>

\* Cache.Set lines 75-98 and the deferred Unlock
SetBody(t) ==
    /\ pc[t] = "set_body"
    /\ LET k    == tkey[t]
           elem == cache.items[k]
       IN
       IF elem # Nil
       THEN LET c1 == SetExisting(cache, elem, tresp[t], now) IN
            /\ cache' = Scrub(c1, Refs)
            /\ ret' = [ret EXCEPT ![t] = [NoRet EXCEPT !.op = "Set", !.key = k,
                                           !.existed = TRUE]]
            /\ touch' = Restrict(Promote(touch, k), Stored(c1))
            /\ setAt' = Remember(c1, k, now, tresp[t])
       ELSE /\ CanAlloc(cache, Refs)
            /\ LET e  == Alloc(cache, Refs, k)
                   c1 == SetInsert(cache, e, k, tresp[t], now)
                   pn == OverCapacity(c1) /\ evictPanics(c1)
                   c2 == IF OverCapacity(c1) /\ ~pn THEN evict(c1) ELSE c1
                   ev == IF OverCapacity(c1) /\ ~pn /\ Back(c1) # Nil
                         THEN c1.ekey[Back(c1)] ELSE NoKey
               IN
               /\ cache' = Scrub(c2, Refs)
               /\ ret' = [ret EXCEPT ![t] = [NoRet EXCEPT !.op = "Set", !.key = k,
                                              !.evicted = ev, !.panic = pn]]
               /\ touch' = Restrict(Promote(touch, k), Stored(c2))
               /\ setAt' = Remember(c2, k, now, tresp[t])
    /\ wlock' = NoTask
    /\ tkey' = [tkey EXCEPT ![t] = NoKey]
    /\ tresp' = [tresp EXCEPT ![t] = NoResp]
    /\ pc' = [pc EXCEPT ![t] = "idle"]
    /\ Advance(t)
    /\ UNCHANGED <<rlock, telem, now, horizon, call>>
    /\ UNCHANGED <<limiterVars, pipeVars>>

\* Cache.Clear line 120: c.mutex.Lock()
ClearCall(t) ==
    /\ pc[t] = "idle" /\ \E k \in Keys : Permitted(t, "Clear", k)
    /\ wlock = NoTask /\ rlock = {}
    /\ wlock' = t
    /\ pc' = [pc EXCEPT ![t] = "clear_body"]
    /\ UNCHANGED <<cache, rlock, tkey, tresp, telem, ret, now, plan, horizon, call, touch, setAt>>
    /\ UNCHANGED <<limiterVars, pipeVars>>

\* Cache.Clear lines 123-124 and the deferred Unlock
ClearBody(t) ==
    /\ pc[t] = "clear_body"
    /\ cache' = Scrub(Clear(cache), Refs)
    /\ touch' = <<>>
    /\ setAt' = << >>
    /\ wlock' = NoTask
    /\ ret' = [ret EXCEPT ![t] = [NoRet EXCEPT !.op = "Clear"]]
    /\ pc' = [pc EXCEPT ![t] = "idle"]
    /\ Advance(t)
    /\ UNCHANGED <<rlock, tkey, tresp, telem, now, horizon, call>>
    /\ UNCHANGED <<limiterVars, pipeVars>>

\* the wall clock advances
Tick ==
    /\ now < horizon
    /\ now' = now + 1
    /\ UNCHANGED <<cacheVars, pipeVars, limiterVars, horizon, call>>

\* ------------------------------------------------------- rate limiter
\* Token counts are kept in sixtieths of a token, so that the refill rate
\* rpm / 60.0 tokens per second is rpm units per second and all amounts are
\* whole numbers for whole seconds (floating-point rounding is not modelled).
TokenUnit == 60

\* min(a, b)
min(a, b) == IF a < b THEN a ELSE b

\* (mutant) a bucket that starts empty
NewTokenBucketEmpty(capacity, refillRate, t) ==
    [tokens |-> 0, capacity |-> capacity, refillRate |-> refillRate, lastRefill |-> t]

\* NewTokenBucket(capacity, refillRate), created at instant t
NewTokenBucket(capacity, refillRate, t) ==
    [tokens |-> capacity, capacity |-> capacity, refillRate |-> refillRate, lastRefill |-> t]

\* (mutant) a refill that is not clamped to the capacity
refillUnclamped(tb, t) ==
    [tb EXCEPT !.tokens = tb.tokens + (t - tb.lastRefill) * tb.refillRate, !.lastRefill = t]

\* TokenBucket.refill() at instant t
refill(tb, t) ==
    [tb EXCEPT !.tokens = min(tb.capacity, tb.tokens + (t - tb.lastRefill) * tb.refillRate),
               !.lastRefill = t]

\* (mutant) an admission test that is content with a fraction of a token
HasTokenFraction(tb) == tb.tokens > 0

\* (mutant) an admission test that needs more than one token
HasTokenStrict(tb) == tb.tokens > TokenUnit

\* TokenBucket.Allow's test: tb.tokens >= 1.0
HasToken(tb) == tb.tokens >= TokenUnit

\* TokenBucket.Allow() at instant t: the bucket afterwards and the result
BucketAllow(tb, t) ==
    LET b == refill(tb, t) IN
    IF HasToken(b)
    THEN [bucket |-> [b EXCEPT !.tokens = @ - TokenUnit], ok |-> TRUE]
    ELSE [bucket |-> b, ok |-> FALSE]

\* TokenBucket.Tokens() at instant t: the bucket afterwards (its tokens are the result)
Tokens(tb, t) == refill(tb, t)

\* NewRateLimiter(rpm, burstSize)
NewRateLimiter(rpm, burstSize) == [rpm |-> rpm, burstSize |-> burstSize, buckets |-> << >>]

NoLimiter == NewRateLimiter(0, 0)

\* op, key: the call and its identity; allowed: Allow's result; value: the
\* number or instant returned (for Cleanup, its maxAge argument); count:
\* Stats' number of buckets; flip changes with every completed call
NoRlRet == [op |-> "none", key |-> "noid", allowed |-> FALSE, value |-> 0, count |-> 0,
            flip |-> FALSE]

\* history of one identity: the instant its bucket was created (-1: no
\* bucket), the Allow calls granted at that same instant, the instant of the
\* last refused Allow (-1: none) and the Allow calls granted since then
NoAccount == [born |-> -1, n |-> 0, dry |-> -1, since |-> 0]

\* no history is kept
NoLedger == << >>

\* the history of the identities in S, before any call
NewLedger(S) == [id \in S |-> NoAccount]

\* the history of the identities in S with, in addition, the instants of all
\* the Allow calls granted (which outlives the bucket)
NewTimedLedger(S) == [id \in S |-> [born |-> -1, n |-> 0, dry |-> -1, since |-> 0, times |-> <<>>]]

\* the history of a bucket is over when Cleanup removes it
Forgotten(a) == [a EXCEPT !.born = -1, !.n = 0, !.dry = -1, !.since = 0]

\* the history after Allow(key) returned ok at instant t
Granted(l, acc, key, ok, t) ==
    IF key \notin DOMAIN acc THEN acc
    ELSE LET a == IF key \in DOMAIN l.buckets THEN acc[key]
                  ELSE [acc[key] EXCEPT !.born = t]
             b == IF ok /\ "times" \in DOMAIN a THEN [a EXCEPT !.times = Append(@, t)] ELSE a
         IN  [acc EXCEPT ![key] =
                 IF ok THEN [b EXCEPT !.n = IF t = a.born THEN a.n + 1 ELSE 0,
                                      !.since = IF a.dry >= 0
                                                THEN min(a.since + 1, l.burstSize) ELSE 0]
                 ELSE [b EXCEPT !.n = IF t = a.born THEN a.n ELSE 0, !.dry = t, !.since = 0]]

\* the result of a completed rate limiter call
RlRet(op, key, allowed, value, count) ==
    [op |-> op, key |-> key, allowed |-> allowed, value |-> value, count |-> count,
     flip |-> ~rlret.flip]

\* (mutant) one bucket shared by all identities
WithSharedBucket(key, bucket) ==
    [rl EXCEPT !.buckets = [k \in DOMAIN rl.buckets \cup {key} |-> bucket]]

\* rl.buckets[key] = bucket
WithBucket(key, bucket) ==
    [rl EXCEPT !.buckets = [k \in DOMAIN rl.buckets \cup {key} |->
                               IF k = key THEN bucket ELSE rl.buckets[k]]]

\* rl.mu is free for Lock(): no writer and no reader holds it
CanLock == rmu.w = NoTask /\ rmu.r = {}

\* rl.mu is free for RLock(): no writer holds it
CanRLock == rmu.w = NoTask

\* RateLimiter.Allow(key) between Lock and Unlock: the bucket it leaves and
\* its result
AllowResult(key) ==
    LET b0 == IF key \in DOMAIN rl.buckets THEN rl.buckets[key]
              ELSE NewTokenBucket(rl.burstSize * TokenUnit, rl.rpm, now)
    IN  BucketAllow(b0, now)

\* RateLimiter.Allow(key), called when rl.mu is free
RLAllow(key) ==
    /\ CanLock
    /\ rl' = WithBucket(key, AllowResult(key).bucket)
    /\ ledger' = Granted(rl, ledger, key, AllowResult(key).ok, now)
    /\ rlret' = RlRet("Allow", key, AllowResult(key).ok, 0, 0)
    /\ UNCHANGED <<cacheVars, pipeVars, rmu, mw, now, horizon, call>>

\* the limiter after bucket.Tokens() on the bucket of key, if it has one
AfterTokens(key) ==
    IF key \in DOMAIN rl.buckets THEN WithBucket(key, Tokens(rl.buckets[key], now)) ELSE rl

\* (mutant) the token count rounded to the nearest whole number
RemainingTokensRounded(key) ==
    IF key \in DOMAIN rl.buckets
    THEN (Tokens(rl.buckets[key], now).tokens + (TokenUnit \div 2)) \div TokenUnit
    ELSE rl.burstSize

\* the result of RateLimiter.GetRemainingTokens(key): int(bucket.Tokens()),
\* or burstSize
RemainingTokens(key) ==
    IF key \in DOMAIN rl.buckets
    THEN Tokens(rl.buckets[key], now).tokens \div TokenUnit
    ELSE rl.burstSize

\* RateLimiter.GetRemainingTokens(key), called when rl.mu has no writer
RLGetRemainingTokens(key) ==
    /\ CanRLock
    /\ rl' = AfterTokens(key)
    /\ rlret' = RlRet("GetRemainingTokens", key, FALSE, RemainingTokens(key), 0)
    /\ UNCHANGED <<cacheVars, pipeVars, ledger, rmu, mw, now, horizon, call>>

\* the instants GetResetTime can return for a bucket with a deficit:
\* time.Duration(secondsToRefill) drops the fraction of a second; with a
\* refill rate of 0 the quotient is +Inf, whose conversion to a Duration is
\* implementation-dependent, so the instant returned is arbitrary
ResetInstants(tb, t) ==
    IF tb.refillRate = 0 THEN 0..horizon
    ELSE {t + ((tb.capacity - tb.tokens) \div tb.refillRate)}

\* the instants RateLimiter.GetResetTime(key) can return
ResetTimes(key) ==
    IF key \in DOMAIN rl.buckets
    THEN LET b == Tokens(rl.buckets[key], now)
             remainingTokens == b.capacity - b.tokens
         IN  IF remainingTokens <= 0 THEN {now} ELSE ResetInstants(b, now)
    ELSE {now}

\* RateLimiter.GetResetTime(key), called when rl.mu has no writer
RLGetResetTime(key) ==
    /\ CanRLock
    /\ rl' = AfterTokens(key)
    /\ \E at \in ResetTimes(key) : rlret' = RlRet("GetResetTime", key, FALSE, at, 0)
    /\ UNCHANGED <<cacheVars, pipeVars, ledger, rmu, mw, now, horizon, call>>

\* (mutant) a test that removes every idle bucket, full or not
StaleIdleOnly(tb, cutoff, t) == tb.lastRefill < cutoff

\* Cleanup's test of one bucket: lastRefill.Before(cutoff) && Tokens() >= capacity
Stale(tb, cutoff, t) == tb.lastRefill < cutoff /\ Tokens(tb, t).tokens >= tb.capacity

\* the identities whose bucket Cleanup(maxAge) keeps
Kept(maxAge) == {k \in DOMAIN rl.buckets : ~Stale(rl.buckets[k], now - maxAge, now)}

\* RateLimiter.Cleanup(maxAge) between Lock and Unlock: Tokens() is called,
\* and refills the bucket, only when the first half of the test holds
CleanupBody(maxAge) ==
    /\ rl' = [rl EXCEPT !.buckets =
                 [k \in Kept(maxAge) |-> IF rl.buckets[k].lastRefill < now - maxAge
                                         THEN Tokens(rl.buckets[k], now) ELSE rl.buckets[k]]]
    /\ ledger' = [id \in DOMAIN ledger |-> IF id \in DOMAIN rl.buckets \ Kept(maxAge)
                                          THEN Forgotten(ledger[id]) ELSE ledger[id]]

\* RateLimiter.Cleanup(maxAge), called when rl.mu is free
RLCleanup(maxAge) ==
    /\ CanLock
    /\ CleanupBody(maxAge)
    /\ rlret' = RlRet("Cleanup", "noid", FALSE, maxAge, 0)
    /\ UNCHANGED <<cacheVars, pipeVars, rmu, mw, now, horizon, call>>

RECURSIVE Sum(_, _)
Sum(f, S) == IF S = {} THEN 0 ELSE LET x == CHOOSE y \in S : TRUE IN f[x] + Sum(f, S \ {x})

\* RateLimiter.Stats(), called when rl.mu has no writer: len(rl.buckets) and
\* the sum of every bucket.Tokens()
RLStats ==
    /\ CanRLock
    /\ LET bs == [k \in DOMAIN rl.buckets |-> Tokens(rl.buckets[k], now)] IN
       /\ rl' = [rl EXCEPT !.buckets = bs]
       /\ rlret' = RlRet("Stats", "noid", FALSE,
                         Sum([k \in DOMAIN bs |-> bs[k].tokens], DOMAIN bs),
                         Cardinality(DOMAIN bs))
    /\ UNCHANGED <<cacheVars, pipeVars, ledger, rmu, mw, now, horizon, call>>

\* ------------------------------------------------ rateLimitMiddleware
\* The handler of a server with rate limiting enabled (main wraps the chain in
\* rateLimitMiddleware only when the limiter is not nil).  Instants are whole
\* seconds, so resetTime.Format(time.RFC3339) and the integer headers are
\* kept as the numbers they print.
RmuFree == [w |-> NoTask, r |-> {}]

NoResponse ==
    [status |-> 0, headers |-> {}, ctype |-> "", limit |-> 0, remaining |-> 0, reset |-> 0,
     retry |-> 0, body |-> "", next |-> FALSE]

\* pc: the handler's position; id: clientKey; left: requests still to come;
\* direct: the task calls limiter.Allow itself, not through the handler;
\* allowed, remaining, resetTime: the handler's locals; after (history): the
\* token count of the bucket when Allow returned; resp: what the client of
\* the last request got
NoRequest ==
    [pc |-> "idle", id |-> "noid", left |-> 0, direct |-> FALSE, allowed |-> FALSE,
     remaining |-> 0, resetTime |-> 0, after |-> 0, resp |-> NoResponse]

StatusTooManyRequests == 429

\* a request of client id reaches the handler in task t: clientKey := getClientKey(r)
MwServe(t, id) ==
    /\ mw[t].pc = "idle" /\ mw[t].left > 0 /\ ~mw[t].direct
    /\ mw' = [mw EXCEPT ![t] = [NoRequest EXCEPT !.pc = "allow_lock", !.id = id,
                                                 !.left = mw[t].left - 1]]
    /\ UNCHANGED <<cacheVars, pipeVars, rl, rlret, ledger, rmu, now, horizon, call>>

\* task t calls limiter.Allow(id) itself
TaskAllow(t, id) ==
    /\ mw[t].pc = "idle" /\ mw[t].left > 0 /\ mw[t].direct
    /\ mw' = [mw EXCEPT ![t].pc = "allow_lock", ![t].id = id, ![t].left = @ - 1]
    /\ UNCHANGED <<cacheVars, pipeVars, rl, rlret, ledger, rmu, now, horizon, call>>

\* limiter.Allow(clientKey): rl.mu.Lock()
MwAllowLock(t) ==
    /\ mw[t].pc = "allow_lock"
    /\ CanLock
    /\ rmu' = [rmu EXCEPT !.w = t]
    /\ mw' = [mw EXCEPT ![t].pc = "allow"]
    /\ UNCHANGED <<cacheVars, pipeVars, rl, rlret, ledger, now, horizon, call>>

\* limiter.Allow(clientKey): lookup or creation, bucket.Allow(), rl.mu.Unlock()
MwAllow(t) ==
    /\ mw[t].pc = "allow"
    /\ rl' = WithBucket(mw[t].id, AllowResult(mw[t].id).bucket)
    /\ ledger' = Granted(rl, ledger, mw[t].id, AllowResult(mw[t].id).ok, now)
    /\ rmu' = [rmu EXCEPT !.w = NoTask]
    /\ mw' = [mw EXCEPT ![t].allowed = AllowResult(mw[t].id).ok,
                        ![t].after = IF mw[t].direct THEN 0
                                     ELSE AllowResult(mw[t].id).bucket.tokens,
                        ![t].pc = IF mw[t].direct THEN "idle"
                                  ELSE IF AllowResult(mw[t].id).ok THEN "remaining_lock"
                                  ELSE "reset_lock"]
    /\ UNCHANGED <<cacheVars, pipeVars, rlret, now, horizon, call>>

\* limiter.GetRemainingTokens(clientKey): rl.mu.RLock()
MwRemainingRLock(t) ==
    /\ mw[t].pc = "remaining_lock"
    /\ CanRLock
    /\ rmu' = [rmu EXCEPT !.r = @ \cup {t}]
    /\ mw' = [mw EXCEPT ![t].pc = "remaining"]
    /\ UNCHANGED <<cacheVars, pipeVars, rl, rlret, ledger, now, horizon, call>>

\* limiter.GetRemainingTokens(clientKey): bucket.Tokens() under the bucket's
\* mutex, rl.mu.RUnlock()
MwRemaining(t) ==
    /\ mw[t].pc = "remaining"
    /\ rl' = AfterTokens(mw[t].id)
    /\ rmu' = [rmu EXCEPT !.r = @ \ {t}]
    /\ mw' = [mw EXCEPT ![t].remaining = RemainingTokens(mw[t].id), ![t].pc = "reset_lock"]
    /\ UNCHANGED <<cacheVars, pipeVars, rlret, ledger, now, horizon, call>>

\* limiter.GetResetTime(clientKey): rl.mu.RLock()
MwResetRLock(t) ==
    /\ mw[t].pc = "reset_lock"
    /\ CanRLock
    /\ rmu' = [rmu EXCEPT !.r = @ \cup {t}]
    /\ mw' = [mw EXCEPT ![t].pc = "reset"]
    /\ UNCHANGED <<cacheVars, pipeVars, rl, rlret, ledger, now, horizon, call>>

\* limiter.GetResetTime(clientKey): bucket.Tokens() under the bucket's mutex,
\* the instant computed, rl.mu.RUnlock()
MwReset(t) ==
    /\ mw[t].pc = "reset"
    /\ rl' = AfterTokens(mw[t].id)
    /\ rmu' = [rmu EXCEPT !.r = @ \ {t}]
    /\ \E at \in ResetTimes(mw[t].id) :
          mw' = [mw EXCEPT ![t].resetTime = at,
                           ![t].pc = IF mw[t].allowed THEN "next" ELSE "deny"]
    /\ UNCHANGED <<cacheVars, pipeVars, rlret, ledger, now, horizon, call>>

\* the refused request: headers, WriteHeader(429) and the body; Retry-After
\* is int(resetTime.Sub(time.Now()).Seconds())
MwDeny(t) ==
    /\ mw[t].pc = "deny"
    /\ mw' = [mw EXCEPT ![t].pc = "idle", ![t].resetTime = 0,
                        ![t].resp = [status |-> StatusTooManyRequests,
                                     headers |-> {"Content-Type", "X-RateLimit-Limit",
                                                  "X-RateLimit-Remaining", "X-RateLimit-Reset",
                                                  "Retry-After"},
                                     ctype |-> "application/json",
                                     limit |-> rl.rpm,
                                     remaining |-> 0,
                                     reset |-> mw[t].resetTime,
                                     retry |-> mw[t].resetTime - now,
                                     body |-> "{\"error\":\"rate_limit_exceeded\",\"message\":\"Too many requests\"}",
                                     next |-> FALSE]]
    /\ UNCHANGED <<cacheVars, pipeVars, rl, rlret, ledger, rmu, now, horizon, call>>

\* (mutant) an admitted request that is also told when to retry
AdmitHeadersWithRetry ==
    {"X-RateLimit-Limit", "X-RateLimit-Remaining", "X-RateLimit-Reset", "Retry-After"}

\* the headers set on an admitted request (lines 211-213)
AdmitHeaders == {"X-RateLimit-Limit", "X-RateLimit-Remaining", "X-RateLimit-Reset"}

\* the admitted request: the three headers, then next.ServeHTTP(w, r)
MwNext(t) ==
    /\ mw[t].pc = "next"
    /\ mw' = [mw EXCEPT ![t].pc = "idle", ![t].remaining = 0, ![t].resetTime = 0,
                        ![t].resp = [NoResponse EXCEPT
                                        !.headers = AdmitHeaders,
                                        !.limit = rl.rpm,
                                        !.remaining = mw[t].remaining,
                                        !.reset = mw[t].resetTime,
                                        !.next = TRUE]]
    /\ UNCHANGED <<cacheVars, pipeVars, rl, rlret, ledger, rmu, now, horizon, call>>

\* ------------------------------------------------ handler chain (middleware.go)
\* A header map holds, for every name, the list of its values (lines).  A
\* value is kept as the sequence of its tokens, and strings.Contains(value,
\* sub) is tested on whole tokens.
HeaderNames == {"Content-Type", "Cache-Control", "X-Cache", "X-RateLimit-Limit",
                "X-RateLimit-Remaining", "X-RateLimit-Reset", "Retry-After"}

NoHeaders == [h \in HeaderNames |-> <<>>]

\* http.Header.Get: the first value of the name, "" (no token) when there is none
HeaderGet(hdr, name) == IF hdr[name] = <<>> THEN <<>> ELSE hdr[name][1]

\* http.Header.Set: the name's values are replaced by the one value
HeaderSet(hdr, name, value) == [hdr EXCEPT ![name] = <<value>>]

\* http.Header.Add: the value is appended to the name's values
HeaderAdd(hdr, name, value) == [hdr EXCEPT ![name] = Append(@, value)]

\* (mutant) a hit that replays no stored header
HeaderAddNone(dst, src) == dst

\* for key, values := range src { for _, value := range values { dst.Add(key, value) } }
HeaderAddAll(dst, src) == [h \in HeaderNames |-> dst[h] \o src[h]]

\* strings.Contains(value, sub)
Contains(value, sub) == \E i \in 1..Len(value) : value[i] = sub

StatusOK == 200
StatusMovedPermanently == 301
StatusNotFound == 404
StatusInternalServerError == 500
StatusGatewayTimeout == 504

\* what the inner handler (the forwarder's backend) may answer: a status, the
\* lines of Cache-Control and a body
Responses ==
    {[status |-> StatusOK,               cc |-> <<>>,                                body |-> <<"b1">>],
     [status |-> StatusMovedPermanently, cc |-> <<>>,                                body |-> <<"b2">>],
     [status |-> StatusNotFound,         cc |-> <<>>,                                body |-> <<"b1">>],
     [status |-> StatusOK,               cc |-> << <<"private">> >>,                 body |-> <<"b1">>],
     [status |-> StatusOK,               cc |-> << <<"max-age=60", "no-cache">> >>,  body |-> <<"b1">>],
     [status |-> StatusOK,               cc |-> << <<"max-age=60">>, <<"private">> >>, body |-> <<"b1">>]}

\* The client's connection as net/http serves it: the header map the
\* handlers edit (hdr); the first WriteHeader sends the status line with the
\* headers as they are then (sent) and later ones are ignored; a WriteHeader
\* with an informational code (1xx other than 101) sends that status (info)
\* and leaves the response unbegun; Write sends the status line first if none
\* was sent; nothing is sent once the handler has returned (finished).
NewConn ==
    [hdr |-> NoHeaders, wrote |-> FALSE, status |-> 0, sent |-> NoHeaders, body |-> <<>>,
     info |-> <<>>, finished |-> FALSE]

ConnWriteHeader(c, code) ==
    IF c.wrote \/ c.finished THEN c
    ELSE IF code \in 100..199 /\ code # 101
    THEN [c EXCEPT !.info = Append(@, code)]
    ELSE [c EXCEPT !.wrote = TRUE, !.status = code, !.sent = c.hdr]

ConnWrite(c, data) ==
    IF c.finished THEN c
    ELSE [ConnWriteHeader(c, StatusOK) EXCEPT !.body = @ \o data]

\* the handler has returned: a response not begun is sent as 200 with no body
ConnFinish(c) == [ConnWriteHeader(c, StatusOK) EXCEPT !.finished = TRUE]

\* newCachingResponseWriter(w)
newCachingResponseWriter == [statusCode |-> StatusOK, body |-> <<>>, written |-> FALSE]

\* &loggingResponseWriter{ResponseWriter: w, statusCode: http.StatusOK}
newLoggingResponseWriter == [statusCode |-> StatusOK]

\* the stage of the chain at position i wraps the writer of the stages below it
Wraps(stage, at) == \E i \in 1..(at - 1) : chain.stack[i] = stage

\* cachingResponseWriter.WriteHeader (lines 32-38), on the writers
\* b = [lrw, crw, conn]
CrwWriteHeader(b, code) ==
    IF b.crw.written THEN b
    ELSE [b EXCEPT !.crw.statusCode = code, !.crw.written = TRUE,
                   !.conn = ConnWriteHeader(b.conn, code)]

\* w.WriteHeader(code) called by the stage at position `at`:
\* loggingResponseWriter.WriteHeader records the code and passes it on
WriteHeaderAt(b, at, code) ==
    LET b1 == IF Wraps("logging", at) THEN [b EXCEPT !.lrw.statusCode = code] ELSE b
    IN  IF Wraps("caching", at) THEN CrwWriteHeader(b1, code)
        ELSE [b1 EXCEPT !.conn = ConnWriteHeader(b1.conn, code)]

\* (mutant) a writer that passes the body on without keeping it
CrwWriteUncaptured(b, data) ==
    LET b1 == IF b.crw.written THEN b ELSE CrwWriteHeader(b, b.crw.statusCode)
    IN  [b1 EXCEPT !.conn = ConnWrite(b1.conn, data)]

\* cachingResponseWriter.Write (lines 40-46)
CrwWrite(b, data) ==
    LET b1 == IF b.crw.written THEN b ELSE CrwWriteHeader(b, b.crw.statusCode)
    IN  [b1 EXCEPT !.crw.body = @ \o data, !.conn = ConnWrite(b1.conn, data)]

\* w.Write(data) called by the stage at position `at`; loggingResponseWriter
\* has no Write of its own
WriteAt(b, at, data) ==
    IF Wraps("caching", at) THEN CrwWrite(b, data)
    ELSE [b EXCEPT !.conn = ConnWrite(b.conn, data)]

Writers == [lrw |-> chain.lrw, crw |-> chain.crw, conn |-> conn]

\* shouldCacheResponse(req, resp), with resp.statusCode and resp.Header()
shouldCacheResponse(req, statusCode, hdr) ==
    /\ req.method = "GET"
    /\ ~(statusCode >= 400)
    /\ ~Contains(HeaderGet(hdr, "Cache-Control"), "no-cache")
    /\ ~Contains(HeaderGet(hdr, "Cache-Control"), "private")

\* Cache.Get(key) with no other call running: the cache after the call,
\* found and the response
Get(c, key, t) ==
    LET elem == c.items[key] IN
    IF elem = Nil THEN [cache |-> c, found |-> FALSE, resp |-> NoResp]
    ELSE IF Expired(c, elem, t)
    THEN [cache |-> Scrub(removeElement(c, elem), {}), found |-> FALSE, resp |-> NoResp]
    ELSE [cache |-> MoveToFront(c, elem), found |-> TRUE, resp |-> c.eresp[elem]]

\* Cache.Set(key, response) with no other call running
Set(c, key, response, t) ==
    LET elem == c.items[key] IN
    IF elem # Nil THEN SetExisting(c, elem, response, t)
    ELSE LET c1 == SetInsert(c, Alloc(c, {}, key), key, response, t)
         IN  Scrub(IF OverCapacity(c1) THEN evict(c1) ELSE c1, {})

NoReq == [method |-> "", url |-> [path |-> "", query |-> ""], accept |-> "", id |-> "noid"]

NoFwd == [status |-> 0, cc |-> <<>>, body |-> <<>>]

\* stack: the stages, outermost first; at, phase: the stage the serving
\* goroutine is in, about to run ("down"), resumed after its next stage
\* returned ("up") or unwinding a panic ("panic"); h: the client-facing
\* handler of timeoutMiddleware; deadline: when its context expires; crw, lrw,
\* cacheKey, fwd: the stages' locals; left: requests still to come (below 0:
\* any number)
NoChain ==
    [stack |-> <<>>, at |-> 0, phase |-> "idle", h |-> "none", deadline |-> 0,
     timeout |-> 0, crw |-> newCachingResponseWriter, lrw |-> newLoggingResponseWriter,
     cacheKey |-> NoKey, fwd |-> NoFwd, allowed |-> FALSE, left |-> 0]

\* history of the request in service: the stages entered in order, the calls
\* of the forwarder, the status the logging stage printed, the X-Cache branch
\* taken, the exchange the client should see repeated (due); and per key the
\* last exchange stored for it and not evicted since (miss): the request, what
\* its client received and when
NoSeen ==
    [order |-> <<>>, forwarded |-> 0, logged |-> 0, xcache |-> "", panics |-> 0,
     recovered |-> FALSE, timedout |-> FALSE, due |-> << >>, miss |-> << >>]

NoPipeline ==
    /\ request = NoReq
    /\ conn = NewConn
    /\ chain = NoChain
    /\ seen = NoSeen

cacheTaskVars == <<wlock, rlock, pc, tkey, tresp, telem, ret, plan, touch, setAt>>

Stage == IF chain.at \in 1..Len(chain.stack) THEN chain.stack[chain.at] ELSE "none"

\* the stage at position `at` returns to the one that called it
ReturnFrom(ch) == [ch EXCEPT !.at = @ - 1, !.phase = "up"]

\* the exchanges remembered after a response was stored: those of the keys
\* the Set evicted are forgotten
StillStored(m, c) == [k \in {x \in DOMAIN m : c.items[x] # Nil} |-> m[k]]

\* a request arrives and the outermost stage is called
Serve(req) ==
    /\ chain.phase = "idle" /\ chain.left # 0
    /\ request' = req
    /\ conn' = NewConn
    /\ chain' = [chain EXCEPT !.at = 1, !.phase = "down",
                              !.left = IF @ > 0 THEN @ - 1 ELSE @,
                              !.h = IF chain.stack[1] = "timeout" THEN "idle" ELSE "none",
                              !.crw = newCachingResponseWriter,
                              !.lrw = newLoggingResponseWriter,
                              !.cacheKey = NoKey, !.fwd = NoFwd, !.allowed = FALSE]
    /\ seen' = [NoSeen EXCEPT !.miss = seen.miss]
    /\ UNCHANGED <<cacheVars, limiterVars, now, horizon, call>>

\* cachingMiddleware, lines 81-98: the key, cache.Get; a hit is answered from
\* the entry and the stage returns, a miss wraps the writer and calls next
CachingGet ==
    /\ chain.phase = "down" /\ Stage = "caching"
    /\ LET key == generateCacheKey(request)
           got == Get(cache, key, now)
           hit == LET h1 == HeaderSet(HeaderAddAll(conn.hdr, got.resp.Headers),
                                      "X-Cache", <<"HIT">>)
                      b0 == [Writers EXCEPT !.conn.hdr = h1]
                  IN  WriteAt(WriteHeaderAt(b0, chain.at, got.resp.StatusCode),
                              chain.at, got.resp.Body)
       IN
       /\ cache' = got.cache
       /\ seen' = [seen EXCEPT !.order = Append(@, "caching"),
                               !.xcache = IF got.found THEN "HIT" ELSE @,
                               !.due = IF key \in DOMAIN seen.miss
                                          /\ now < seen.miss[key].at + cache.ttl
                                       THEN <<seen.miss[key]>> ELSE << >>]
       /\ IF got.found
          THEN /\ conn' = hit.conn
               /\ chain' = ReturnFrom([chain EXCEPT !.cacheKey = key])
          ELSE /\ conn' = conn
               /\ chain' = [chain EXCEPT !.cacheKey = key, !.crw = newCachingResponseWriter,
                                         !.at = @ + 1]
    /\ UNCHANGED <<cacheTaskVars, limiterVars, request, now, horizon, call>>

\* cachingMiddleware, lines 101-120, after next.ServeHTTP(crw, r) returned:
\* an eligible response is copied and stored and X-Cache is set to MISS,
\* any other gets X-Cache: BYPASS; cache is not nil here
CachingStore ==
    /\ chain.phase = "up" /\ Stage = "caching"
    /\ LET eligible == shouldCacheResponse(request, chain.crw.statusCode, conn.hdr)
           cachedResp == [StatusCode |-> chain.crw.statusCode, Headers |-> conn.hdr,
                          Body |-> chain.crw.body, CreatedAt |-> now]
           c1 == IF eligible THEN Set(cache, chain.cacheKey, cachedResp, now) ELSE cache
           m1 == IF eligible
                 THEN [k \in DOMAIN seen.miss \cup {chain.cacheKey} |->
                          IF k = chain.cacheKey
                          THEN [req |-> request, status |-> conn.status,
                                body |-> conn.body, at |-> now]
                          ELSE seen.miss[k]]
                 ELSE seen.miss
       IN
       /\ cache' = c1
       /\ conn' = [conn EXCEPT !.hdr = HeaderSet(@, "X-Cache",
                                                 IF eligible THEN <<"MISS">> ELSE <<"BYPASS">>)]
       /\ seen' = [seen EXCEPT !.xcache = IF eligible THEN "MISS" ELSE "BYPASS",
                               !.miss = StillStored(m1, c1)]
    /\ chain' = ReturnFrom(chain)
    /\ UNCHANGED <<cacheTaskVars, limiterVars, request, now, horizon, call>>

\* the innermost handler is called: it sets its headers and calls
\* w.WriteHeader(status)
ForwardHeader(resp) ==
    /\ chain.phase = "down" /\ Stage = "forwarder"
    /\ chain.fwd = NoFwd
    /\ LET h1 == [HeaderSet(conn.hdr, "Content-Type", <<"text/html">>)
                     EXCEPT !["Cache-Control"] = @ \o resp.cc]
           b1 == WriteHeaderAt([Writers EXCEPT !.conn.hdr = h1], chain.at, resp.status)
       IN
       /\ conn' = b1.conn
       /\ chain' = [chain EXCEPT !.fwd = resp, !.crw = b1.crw, !.lrw = b1.lrw]
    /\ seen' = [seen EXCEPT !.order = Append(@, "forwarder"), !.forwarded = @ + 1]
    /\ UNCHANGED <<cacheVars, limiterVars, request, now, horizon, call>>

\* the innermost handler writes the body and returns
ForwardBody ==
    /\ chain.phase = "down" /\ Stage = "forwarder"
    /\ chain.fwd # NoFwd
    /\ LET b1 == WriteAt(Writers, chain.at, chain.fwd.body) IN
       /\ conn' = b1.conn
       /\ chain' = ReturnFrom([chain EXCEPT !.crw = b1.crw, !.lrw = b1.lrw])
    /\ UNCHANGED <<cacheVars, limiterVars, request, seen, now, horizon, call>>

\* the outermost stage has returned to the server
Returned == chain.phase = "up" /\ chain.at = 0 /\ chain.h = "none"

\* the response is completed and the request forgotten
Finish ==
    /\ Returned
    /\ request' = NoReq
    /\ conn' = NewConn
    /\ chain' = [NoChain EXCEPT !.stack = chain.stack, !.left = chain.left,
                                !.timeout = chain.timeout]
    /\ seen' = [NoSeen EXCEPT !.miss = seen.miss]
    /\ UNCHANGED <<cacheVars, limiterVars, now, horizon, call>>

\* ----------------------------------------------------- the chain of main
\* timeoutMiddleware, lines 168-178: the context with its deadline, the done
\* channel, and the goroutine that runs the rest of the chain
TimeoutStart ==
    /\ chain.phase = "down" /\ Stage = "timeout" /\ chain.h = "idle"
    /\ chain' = [chain EXCEPT !.h = "select", !.deadline = now + chain.timeout, !.at = @ + 1]
    /\ seen' = [seen EXCEPT !.order = Append(@, "timeout")]
    /\ UNCHANGED <<cacheVars, limiterVars, request, conn, now, horizon, call>>

\* done := make(chan bool, 1)
DoneCapacity == 1

\* (mutant) an unbuffered channel: a send completes only with a receiver
CanSendUnbuffered == chain.h = "select"

\* a send on done completes when the buffer has room (the goroutine sends
\* once) or the handler is receiving in its select
CanSend == DoneCapacity >= 1 \/ chain.h = "select"

\* timeoutMiddleware, line 177, in the goroutine: done <- true
TimeoutSend ==
    /\ chain.phase = "up" /\ Stage = "timeout"
    /\ CanSend
    /\ chain' = [chain EXCEPT !.phase = "done"]
    /\ UNCHANGED <<cacheVars, limiterVars, request, conn, seen, now, horizon, call>>

\* timeoutMiddleware, lines 180-183: select receives from done; the handler
\* returns and the server completes the response
TimeoutDone ==
    /\ chain.h = "select" /\ chain.phase = "done"
    /\ chain' = [chain EXCEPT !.h = "returned"]
    /\ conn' = ConnFinish(conn)
    /\ UNCHANGED <<cacheVars, limiterVars, request, seen, now, horizon, call>>

TimeoutBody == <<"{\"error\":\"gateway_timeout\",\"message\":\"Request timed out\"}">>

\* timeoutMiddleware, lines 184-190: select receives from ctx.Done() once the
\* deadline has passed; the handler writes the 504 on the writer the
\* goroutine is using and returns
TimeoutFire ==
    /\ chain.h = "select" /\ now >= chain.deadline
    /\ LET c1 == [conn EXCEPT !.hdr = HeaderSet(@, "Content-Type", <<"application/json">>)]
           c2 == ConnWrite(ConnWriteHeader(c1, StatusGatewayTimeout), TimeoutBody)
       IN  conn' = ConnFinish(c2)
    /\ chain' = [chain EXCEPT !.h = "returned"]
    /\ seen' = [seen EXCEPT !.timedout = TRUE]
    /\ UNCHANGED <<cacheVars, limiterVars, request, now, horizon, call>>

\* errorHandlingMiddleware, lines 152-161: the deferred recovery is set up
\* and next is called
ErrorEnter ==
    /\ chain.phase = "down" /\ Stage = "errorHandling"
    /\ chain' = [chain EXCEPT !.at = @ + 1]
    /\ seen' = [seen EXCEPT !.order = Append(@, "errorHandling")]
    /\ UNCHANGED <<cacheVars, limiterVars, request, conn, now, horizon, call>>

PanicBody ==
    <<"{\"error\":\"internal_server_error\",\"message\":\"An unexpected error occurred\"}">>

\* errorHandlingMiddleware, lines 153-158: the deferred function recovers the
\* panic and writes the 500 on its writer
ErrorRecover ==
    /\ chain.phase = "panic" /\ Stage = "errorHandling"
    /\ LET b0 == [Writers EXCEPT !.conn.hdr = HeaderSet(@, "Content-Type", <<"application/json">>)]
           b1 == WriteAt(WriteHeaderAt(b0, chain.at, StatusInternalServerError),
                         chain.at, PanicBody)
       IN  conn' = b1.conn
    /\ chain' = ReturnFrom(chain)
    /\ seen' = [seen EXCEPT !.recovered = TRUE]
    /\ UNCHANGED <<cacheVars, limiterVars, request, now, horizon, call>>

\* a stage with nothing to do after its next stage returned (rateLimitMiddleware,
\* errorHandlingMiddleware when nothing panicked) returns
StageReturn ==
    /\ chain.phase = "up" /\ Stage \in {"rateLimit", "errorHandling"}
    /\ chain' = ReturnFrom(chain)
    /\ UNCHANGED <<cacheVars, limiterVars, request, conn, seen, now, horizon, call>>

\* (mutant) an admission that decides without taking the token
RateLimitAllowFree ==
    /\ chain.phase = "down" /\ Stage = "rateLimit"
    /\ rl' = WithBucket(request.id, Tokens(AllowResult(request.id).bucket, now))
    /\ chain' = [chain EXCEPT !.phase = "allowed", !.allowed = TRUE]
    /\ seen' = [seen EXCEPT !.order = Append(@, "rateLimit")]
    /\ UNCHANGED <<cacheVars, rlret, ledger, rmu, mw, request, conn, now, horizon, call>>

\* rateLimitMiddleware, lines 190-192: clientKey and limiter.Allow(clientKey)
RateLimitAllow ==
    /\ chain.phase = "down" /\ Stage = "rateLimit"
    /\ rl' = WithBucket(request.id, AllowResult(request.id).bucket)
    /\ chain' = [chain EXCEPT !.phase = "allowed", !.allowed = AllowResult(request.id).ok]
    /\ seen' = [seen EXCEPT !.order = Append(@, "rateLimit")]
    /\ UNCHANGED <<cacheVars, rlret, ledger, rmu, mw, request, conn, now, horizon, call>>

RateLimitBody == <<"{\"error\":\"rate_limit_exceeded\",\"message\":\"Too many requests\"}">>

\* rateLimitMiddleware, lines 193-215: a refused request is answered 429, an
\* admitted one gets the three headers and is passed to next
RateLimitAnswer ==
    /\ chain.phase = "allowed" /\ Stage = "rateLimit"
    /\ rl' = AfterTokens(request.id)
    /\ \E resetTime \in ResetTimes(request.id) :
          LET h0 == HeaderSet(conn.hdr, "X-RateLimit-Limit", <<rl.rpm>>)
              h1 == HeaderSet(h0, "X-RateLimit-Reset", <<resetTime>>)
              ok == HeaderSet(h1, "X-RateLimit-Remaining", <<RemainingTokens(request.id)>>)
              no == HeaderSet(HeaderSet(HeaderSet(h1, "X-RateLimit-Remaining", <<0>>),
                                        "Content-Type", <<"application/json">>),
                              "Retry-After", <<resetTime - now>>)
              b0 == [Writers EXCEPT !.conn.hdr = no]
              b1 == WriteAt(WriteHeaderAt(b0, chain.at, StatusTooManyRequests),
                            chain.at, RateLimitBody)
          IN  IF chain.allowed
              THEN /\ conn' = [conn EXCEPT !.hdr = ok]
                   /\ chain' = [chain EXCEPT !.phase = "down", !.at = @ + 1]
              ELSE /\ conn' = b1.conn
                   /\ chain' = ReturnFrom(chain)
    /\ UNCHANGED <<cacheVars, rlret, ledger, rmu, mw, request, seen, now, horizon, call>>

\* loggingMiddleware, lines 519-525: the writer is wrapped and next is called
LoggingEnter ==
    /\ chain.phase = "down" /\ Stage = "logging"
    /\ chain' = [chain EXCEPT !.lrw = newLoggingResponseWriter, !.at = @ + 1]
    /\ seen' = [seen EXCEPT !.order = Append(@, "logging")]
    /\ UNCHANGED <<cacheVars, limiterVars, request, conn, now, horizon, call>>

\* loggingMiddleware, lines 527-529: the request is logged with lrw.statusCode
LoggingLog ==
    /\ chain.phase = "up" /\ Stage = "logging"
    /\ seen' = [seen EXCEPT !.logged = chain.lrw.statusCode]
    /\ chain' = ReturnFrom(chain)
    /\ UNCHANGED <<cacheVars, limiterVars, request, conn, now, horizon, call>>

\* the stages inside errorHandlingMiddleware
Inner == {"rateLimit", "caching", "logging", "forwarder"}

\* a stage inside the panic-isolation stage panics (a nil dereference, a
\* failed type assertion, the forwarder's http.ErrAbortHandler), once per request
Panic ==
    /\ chain.phase \in {"down", "allowed", "up"} /\ Stage \in Inner
    /\ seen.panics = 0
    /\ chain' = [chain EXCEPT !.phase = "panic"]
    /\ seen' = [seen EXCEPT !.panics = @ + 1]
    /\ UNCHANGED <<cacheVars, limiterVars, request, conn, now, horizon, call>>

\* the panic leaves a stage that defers nothing: the rest of that stage is
\* not run
PanicUnwind ==
    /\ chain.phase = "panic" /\ Stage \in Inner
    /\ chain' = [chain EXCEPT !.at = @ - 1]
    /\ UNCHANGED <<cacheVars, limiterVars, request, conn, seen, now, horizon, call>>

\* the forwarder's backend never answers
Hang ==
    /\ chain.phase = "down" /\ Stage = "forwarder"
    /\ chain' = [chain EXCEPT !.phase = "hung"]
    /\ UNCHANGED <<cacheVars, limiterVars, request, conn, seen, now, horizon, call>>

\* the request is over: the handler has returned and its goroutine has ended
\* or will never move again
ChainFinish ==
    /\ chain.h = "returned" /\ chain.phase \in {"done", "hung"}
    /\ request' = NoReq
    /\ conn' = NewConn
    /\ chain' = [NoChain EXCEPT !.stack = chain.stack, !.left = chain.left,
                                !.timeout = chain.timeout]
    /\ seen' = [NoSeen EXCEPT !.miss = seen.miss]
    /\ UNCHANGED <<cacheVars, limiterVars, now, horizon, call>>

\* ------------------------------------------------- getClientKey (part_001)
\* strings are sequences of characters; the characters that matter to
\* getClientKey are the two separators, a digit and a blank
Chars == {"1", " ", ",", ":"}

MaxLen == 3

Strs == UNION {[1..n -> Chars] : n \in 0..MaxLen}

\* for i, char := range s { if char == c { return i } }: the first index of c
\* in s from position i on, 0 if there is none
RECURSIVE IndexFrom(_, _, _)
IndexFrom(s, c, i) ==
    IF i > Len(s) THEN 0
    ELSE IF s[i] = c THEN i
    ELSE IndexFrom(s, c, i + 1)

\* for i := len(s) - 1; i >= 0; i-- { if s[i] == c { return i } }: the last
\* index of c in s at or before position i, 0 if there is none
RECURSIVE LastIndexFrom(_, _, _)
LastIndexFrom(s, c, i) ==
    IF i < 1 THEN 0
    ELSE IF s[i] = c THEN i
    ELSE LastIndexFrom(s, c, i - 1)

Unknown == <<"unknown">>

getClientKeyFirstColon(xff, remoteAddr) ==
    IF xff # <<>>
    THEN IF IndexFrom(xff, ",", 1) > 0 THEN SubSeq(xff, 1, IndexFrom(xff, ",", 1) - 1) ELSE xff
    ELSE IF remoteAddr # <<>>
    THEN IF IndexFrom(remoteAddr, ":", 1) > 0
         THEN SubSeq(remoteAddr, 1, IndexFrom(remoteAddr, ":", 1) - 1)
         ELSE remoteAddr
    ELSE Unknown

\* getClientKey(r), with xff = r.Header.Get("X-Forwarded-For") and
\* remoteAddr = r.RemoteAddr
getClientKey(xff, remoteAddr) ==
    IF xff # <<>>
    THEN LET comma == IndexFrom(xff, ",", 1)
         IN  IF comma > 0 THEN SubSeq(xff, 1, comma - 1) ELSE xff
    ELSE IF remoteAddr # <<>>
    THEN LET colon == LastIndexFrom(remoteAddr, ":", Len(remoteAddr))
         IN  IF colon > 0 THEN SubSeq(remoteAddr, 1, colon - 1) ELSE remoteAddr
    ELSE Unknown

\* the call returns
GetClientKeyCall ==
    /\ call.op = "getClientKey" /\ ~call.done
    /\ call' = [call EXCEPT !.done = TRUE, !.ret = getClientKey(call.xff, call.remoteAddr)]
    /\ UNCHANGED <<cacheVars, limiterVars, pipeVars, now, horizon>>

\* ---------------------------------------------------- LoadConfig (config.go)
\* the options that an environment variable and a flag can set
Options == {"Port", "Backend"}

\* the option is not given by the source
Absent == "absent"

\* config := &Config{Port: 8080, Backend: "http://127.0.0.1:5000", ...}
Defaults == [Port |-> "8080", Backend |-> "http://127.0.0.1:5000"]

\* a JSON file: each option it holds, with its value (an integer is written
\* as its decimal numeral)
Files == [Port : {Absent, "1", "2"}, Backend : {Absent, "a", "b"}]

\* the environment: PROXY_PORT and PROXY_BACKEND, "" when unset
Envs == [Port : {"", "1", "2", "x"}, Backend : {"", "a", "b"}]

\* the command line: -port and -backend
Flags == [Port : {Absent, "1", "2"}, Backend : {Absent, "a", "b"}]

NoFile == [Port |-> Absent, Backend |-> Absent]

\* strconv.Atoi: the integer of a decimal numeral, or Absent for the error
Atoi(s) == IF s \in {"1", "2"} THEN s ELSE Absent

\* loadConfigFromFile: decoder.Decode(config) assigns the fields the file holds
loadConfigFromFile(file, config) ==
    [o \in Options |-> IF file[o] # Absent THEN file[o] ELSE config[o]]

\* loadConfigFromEnvAndFile: the file named by PROXY_CONFIG_FILE, then the
\* environment variables
loadConfigFromEnvAndFile(in, config) ==
    LET c1 == loadConfigFromFile(in.envfile, config)
        c2 == IF in.env.Port # "" /\ Atoi(in.env.Port) # Absent
              THEN [c1 EXCEPT !.Port = Atoi(in.env.Port)] ELSE c1
    IN  IF in.env.Backend # "" THEN [c2 EXCEPT !.Backend = in.env.Backend] ELSE c2

\* LoadConfig: defaults, file and environment, then, unless the flags were
\* parsed already, the flags (whose defaults are the values so far) and the
\* file named by -config
LoadConfig(in) ==
    LET c1 == loadConfigFromEnvAndFile(in, Defaults)
        c2 == [o \in Options |-> IF in.flags[o] # Absent THEN in.flags[o] ELSE c1[o]]
    IN  IF in.parsed THEN c1 ELSE loadConfigFromFile(in.flagfile, c2)

\* the call returns
LoadConfigCall ==
    /\ call.op = "LoadConfig" /\ ~call.done
    /\ call' = [call EXCEPT !.done = TRUE, !.config = LoadConfig(call)]
    /\ UNCHANGED <<cacheVars, limiterVars, pipeVars, now, horizon>>

\* ------------------------------------ the inner handler's calls on the writer
\* the statuses the forwarder relays: 103 Early Hints, 200, 404
WriterCodes == {103, StatusOK, StatusNotFound}

Chunks == {<<"b1">>, <<"b2">>}

\* the inner handler calls w.WriteHeader(code) on the writer the caching
\* stage gave it; call.direct is the connection of the same handler run
\* without the caching stage
InnerWriteHeader(code) ==
    /\ call.op = "writer" /\ Len(call.calls) < MaxCalls
    /\ LET b1 == WriteHeaderAt(Writers, chain.at, code) IN
       /\ conn' = b1.conn
       /\ chain' = [chain EXCEPT !.crw = b1.crw, !.lrw = b1.lrw]
    /\ call' = [call EXCEPT !.direct = ConnWriteHeader(@, code),
                            !.calls = Append(@, [op |-> "WriteHeader", code |-> code,
                                                 data |-> <<>>])]
    /\ UNCHANGED <<cacheVars, limiterVars, request, seen, now, horizon>>

\* the inner handler calls w.Write(data)
InnerWrite(data) ==
    /\ call.op = "writer" /\ Len(call.calls) < MaxCalls
    /\ LET b1 == WriteAt(Writers, chain.at, data) IN
       /\ conn' = b1.conn
       /\ chain' = [chain EXCEPT !.crw = b1.crw, !.lrw = b1.lrw]
    /\ call' = [call EXCEPT !.direct = ConnWrite(@, data),
                            !.calls = Append(@, [op |-> "Write", code |-> 0, data |-> data])]
    /\ UNCHANGED <<cacheVars, limiterVars, request, seen, now, horizon>>

\* ------------------------------------- the lock statements of every call
\* Each call of the cache and of the limiter is reduced to the lock
\* statements it executes, in order, on c.mutex ("c"), rl.mu ("rl") and the
\* mutex of one bucket ("tb"); which path a call takes (hit, miss, expired,
\* bucket found or not, buckets visited) is left open.
Stmt(mu, do) == [mu |-> mu, do |-> do, key |-> "noid"]

\* Cache.Set, Cache.Clear: Lock, deferred Unlock
CacheWritePath == <<Stmt("c", "Lock"), Stmt("c", "Unlock")>>

\* Cache.Size, Cache.Stats, Cache.Get on a miss or a hit: RLock, deferred RUnlock
CacheReadPath == <<Stmt("c", "RLock"), Stmt("c", "RUnlock")>>

\* (mutant) a Get that asks for the write lock while still holding the read lock
GetExpiredPathUpgrade ==
    <<Stmt("c", "RLock"), Stmt("c", "Lock"), Stmt("c", "Unlock"), Stmt("c", "RUnlock")>>

\* Cache.Get on an expired entry, lines 45-59: RLock, RUnlock, Lock, Unlock,
\* RLock and the deferred RUnlock
GetExpiredPath ==
    <<Stmt("c", "RLock"), Stmt("c", "RUnlock"), Stmt("c", "Lock"), Stmt("c", "Unlock"),
      Stmt("c", "RLock"), Stmt("c", "RUnlock")>>

\* TokenBucket.Allow, TokenBucket.Tokens on bucket k: Lock, deferred Unlock
BucketPath(k) == <<[mu |-> "tb", do |-> "Lock", key |-> k], [mu |-> "tb", do |-> "Unlock", key |-> k]>>

\* the buckets a loop over rl.buckets may call Tokens() on, in any order
Visits == {<<>>} \cup {BucketPath(k) : k \in Ids}
             \cup {BucketPath(kj[1]) \o BucketPath(kj[2]) : kj \in {x \in Ids \X Ids : x[1] # x[2]}}

\* RateLimiter.Allow(k); RateLimiter.Cleanup: Lock, the bucket calls, deferred Unlock
LimiterWritePaths ==
    {<<Stmt("rl", "Lock")>> \o v \o <<Stmt("rl", "Unlock")>> :
        v \in Visits \ {<<>>}} \cup {<<Stmt("rl", "Lock"), Stmt("rl", "Unlock")>>}

\* RateLimiter.GetRemainingTokens(k), GetResetTime(k), Stats: RLock, the
\* bucket calls, deferred RUnlock
LimiterReadPaths == {<<Stmt("rl", "RLock")>> \o v \o <<Stmt("rl", "RUnlock")>> : v \in Visits}

Paths == {CacheWritePath, CacheReadPath, GetExpiredPath} \cup LimiterWritePaths
             \cup LimiterReadPaths

\* the goroutines making calls
LockTasks == {"t1", "t2"}

\* the statement task t is at
Cur(t) == call.path[t][call.at[t]]

At(t, mu, do) ==
    /\ call.op = "locks" /\ call.at[t] \in 1..Len(call.path[t])
    /\ Cur(t).mu = mu /\ Cur(t).do = do

\* some goroutine has announced a Lock on the RWMutex mu and is waiting for
\* the readers to leave: RLock blocks meanwhile
WriterWaiting(mu) == \E u \in LockTasks : At(u, mu, "Lock") /\ call.waiting[u]

Done(t) == [call EXCEPT !.at[t] = @ + 1, !.waiting[t] = FALSE]

\* what the lock statements leave alone
LockRest ==
    <<cache, pc, tkey, tresp, telem, ret, plan, touch, setAt, rl, rlret, ledger, mw,
      pipeVars, now, horizon>>

\* a goroutine calls a function of the cache or of the limiter
CallStart(t, p) ==
    /\ call.op = "locks" /\ call.at[t] = 0 /\ call.left[t] > 0
    /\ call' = [call EXCEPT !.path[t] = p, !.at[t] = 1, !.left[t] = @ - 1]
    /\ UNCHANGED <<wlock, rlock, rmu, LockRest>>

\* the call returns
CallReturn(t) ==
    /\ call.op = "locks" /\ call.at[t] = Len(call.path[t]) + 1
    /\ call' = [call EXCEPT !.at[t] = 0, !.path[t] = <<>>]
    /\ UNCHANGED <<wlock, rlock, rmu, LockRest>>

\* RWMutex.Lock, first half: the writer announces itself
LockAnnounce(t) ==
    /\ \E mu \in {"c", "rl"} : At(t, mu, "Lock")
    /\ ~call.waiting[t]
    /\ call' = [call EXCEPT !.waiting[t] = TRUE]
    /\ UNCHANGED <<wlock, rlock, rmu, LockRest>>

\* RWMutex.Lock, second half: no writer and no reader holds the lock
LockAcquire(t) ==
    /\ call.op = "locks" /\ call.waiting[t]
    /\ \/ /\ At(t, "c", "Lock") /\ wlock = NoTask /\ rlock = {}
          /\ wlock' = t /\ UNCHANGED <<rlock, rmu>>
       \/ /\ At(t, "rl", "Lock") /\ CanLock
          /\ rmu' = [rmu EXCEPT !.w = t] /\ UNCHANGED <<wlock, rlock>>
    /\ call' = Done(t)
    /\ UNCHANGED LockRest

\* RWMutex.Unlock; unlocking a lock the goroutine does not hold is fatal
Unlock(t) ==
    /\ \/ /\ At(t, "c", "Unlock")
          /\ wlock' = IF wlock = t THEN NoTask ELSE wlock
          /\ call' = [Done(t) EXCEPT !.fatal = @ \/ wlock # t]
          /\ UNCHANGED <<rlock, rmu>>
       \/ /\ At(t, "rl", "Unlock")
          /\ rmu' = IF rmu.w = t THEN [rmu EXCEPT !.w = NoTask] ELSE rmu
          /\ call' = [Done(t) EXCEPT !.fatal = @ \/ rmu.w # t]
          /\ UNCHANGED <<wlock, rlock>>
    /\ UNCHANGED LockRest

\* RWMutex.RLock: no writer holds the lock or waits for it
RLock(t) ==
    /\ \/ /\ At(t, "c", "RLock") /\ wlock = NoTask /\ ~WriterWaiting("c")
          /\ rlock' = rlock \cup {t} /\ UNCHANGED <<wlock, rmu>>
       \/ /\ At(t, "rl", "RLock") /\ CanRLock /\ ~WriterWaiting("rl")
          /\ rmu' = [rmu EXCEPT !.r = @ \cup {t}] /\ UNCHANGED <<wlock, rlock>>
    /\ call' = Done(t)
    /\ UNCHANGED LockRest

\* RWMutex.RUnlock; releasing a read lock not held is fatal
RUnlock(t) ==
    /\ \/ /\ At(t, "c", "RUnlock")
          /\ rlock' = rlock \ {t}
          /\ call' = [Done(t) EXCEPT !.fatal = @ \/ t \notin rlock]
          /\ UNCHANGED <<wlock, rmu>>
       \/ /\ At(t, "rl", "RUnlock")
          /\ rmu' = [rmu EXCEPT !.r = @ \ {t}]
          /\ call' = [Done(t) EXCEPT !.fatal = @ \/ t \notin rmu.r]
          /\ UNCHANGED <<wlock, rlock>>
    /\ UNCHANGED LockRest

\* tb.mu.Lock()
BucketLock(t) ==
    /\ At(t, "tb", "Lock") /\ call.bmu[Cur(t).key] = NoTask
    /\ call' = [Done(t) EXCEPT !.bmu[Cur(t).key] = t]
    /\ UNCHANGED <<wlock, rlock, rmu, LockRest>>

\* tb.mu.Unlock()
BucketUnlock(t) ==
    /\ At(t, "tb", "Unlock")
    /\ call' = [Done(t) EXCEPT !.bmu[Cur(t).key] = IF @ = t THEN NoTask ELSE @,
                               !.fatal = @ \/ call.bmu[Cur(t).key] # t]
    /\ UNCHANGED <<wlock, rlock, rmu, LockRest>>

\* ------------------------------------------------------ specifications

Off == [mode |-> "off", left |-> 0, keys |-> {}, resps |-> {}]

InitCache(active, mode, calls, keys, resps, caps, ttls, end) ==
    /\ \E cap \in caps, ttl \in ttls : cache = NewCache(cap, ttl)
    /\ horizon = end
    /\ call = NoCall
    /\ wlock = NoTask
    /\ rlock = {}
    /\ pc = [t \in Tasks |-> "idle"]
    /\ tkey = [t \in Tasks |-> NoKey]
    /\ tresp = [t \in Tasks |-> NoResp]
    /\ telem = [t \in Tasks |-> Nil]
    /\ ret = [t \in Tasks |-> NoRet]
    /\ now = 0
    /\ plan = [t \in Tasks |-> IF t \in active
                           THEN [mode |-> mode, left |-> calls, keys |-> keys, resps |-> resps]
                           ELSE Off]
    /\ touch = <<>>
    /\ setAt = << >>
    /\ rl = NoLimiter
    /\ rlret = NoRlRet
    /\ ledger = NoLedger
    /\ rmu = RmuFree
    /\ mw = [t \in Tasks |-> NoRequest]
    /\ NoPipeline

NextCache ==
    \/ \E t \in Tasks, k \in Keys : GetCall(t, k)
    \/ \E t \in Tasks : GetMoveCheck(t)
    \/ \E t \in Tasks, i \in 1..6 : GetMoveStep(t, i)
    \/ \E t \in Tasks : GetLock(t)
    \/ \E t \in Tasks : GetRemove(t)
    \/ \E t \in Tasks, k \in Keys, r \in Resps : SetCall(t, k, r)
    \/ \E t \in Tasks : SetBody(t)
    \/ \E t \in Tasks : ClearCall(t)
    \/ \E t \in Tasks : ClearBody(t)
    \/ Tick

\* one task: every call runs to completion before the next starts
InitSeq == InitCache({"t1"}, "any", 0, TestKeys, {"r1", "r2"}, 0..MaxCapacity, TTLs, MaxTime)

SpecSeq == InitSeq /\ [][NextCache]_vars

\* two tasks calling concurrently
InitConc ==
    InitCache({"t1", "t2"}, "count", MaxCalls, {"k1", "k2"}, {"r1"}, {MaxCapacity}, {1}, MaxTime - 1)

SpecConc == InitConc /\ [][NextCache]_vars

\* TestCache_ConcurrentAccess: every task Sets its own key and then Gets it;
\* the cache has room for all keys and the observation ends before any entry
\* can expire
OwnKey == [t \in Tasks |-> CASE t = "t1" -> "k1" [] t = "t2" -> "k2" [] t = "t3" -> "k3"]

OwnResp == [t \in Tasks |-> CASE t = "t1" -> "r1" [] t = "t2" -> "r2" [] t = "t3" -> "r3"]

InitOwn ==
    /\ \E ttl \in TTLs : cache = NewCache(Cardinality(Tasks), ttl) /\ horizon = ttl
    /\ call = NoCall
    /\ wlock = NoTask
    /\ rlock = {}
    /\ pc = [t \in Tasks |-> "idle"]
    /\ tkey = [t \in Tasks |-> NoKey]
    /\ tresp = [t \in Tasks |-> NoResp]
    /\ telem = [t \in Tasks |-> Nil]
    /\ ret = [t \in Tasks |-> NoRet]
    /\ now = 0
    /\ plan = [t \in Tasks |-> [mode |-> "set", left |-> 0, keys |-> {OwnKey[t]},
                                resps |-> {OwnResp[t]}]]
    /\ touch = <<>>
    /\ setAt = << >>
    /\ rl = NoLimiter
    /\ rlret = NoRlRet
    /\ ledger = NoLedger
    /\ rmu = RmuFree
    /\ mw = [t \in Tasks |-> NoRequest]
    /\ NoPipeline

NextOwn ==
    \/ \E t \in Tasks, k \in Keys : GetCall(t, k)
    \/ \E t \in Tasks : GetMoveCheck(t)
    \/ \E t \in Tasks, i \in 1..6 : GetMoveStep(t, i)
    \/ \E t \in Tasks, k \in Keys, r \in Resps : SetCall(t, k, r)
    \/ \E t \in Tasks : SetBody(t)
    \/ Tick

SpecOwn == InitOwn /\ [][NextOwn]_vars

\* one rate limiter, called by one caller at a time
InitLimiter ==
    /\ \E rpm \in RPMs, burst \in Bursts : rl = NewRateLimiter(rpm, burst)
    /\ rlret = NoRlRet
    /\ ledger = NoLedger
    /\ rmu = RmuFree
    /\ mw = [t \in Tasks |-> NoRequest]
    /\ NoPipeline
    /\ now = 0
    /\ horizon = MaxTime
    /\ call = NoCall
    /\ cache = NewCache(0, 1)
    /\ wlock = NoTask
    /\ rlock = {}
    /\ pc = [t \in Tasks |-> "idle"]
    /\ tkey = [t \in Tasks |-> NoKey]
    /\ tresp = [t \in Tasks |-> NoResp]
    /\ telem = [t \in Tasks |-> Nil]
    /\ ret = [t \in Tasks |-> NoRet]
    /\ plan = [t \in Tasks |-> Off]
    /\ touch = <<>>
    /\ setAt = << >>

NextLimiter ==
    \/ \E key \in Ids : RLAllow(key)
    \/ \E key \in Ids : RLGetRemainingTokens(key)
    \/ \E key \in Ids : RLGetResetTime(key)
    \/ \E maxAge \in MaxAges : RLCleanup(maxAge)
    \/ RLStats
    \/ Tick

SpecLimiter == InitLimiter /\ [][NextLimiter]_vars

\* the same limiter and calls, with the history of identity "a" kept
InitBurst ==
    /\ \E rpm \in RPMs, burst \in Bursts : rl = NewRateLimiter(rpm, burst)
    /\ rlret = NoRlRet
    /\ ledger = NewLedger({"a"})
    /\ rmu = RmuFree
    /\ mw = [t \in Tasks |-> NoRequest]
    /\ NoPipeline
    /\ now = 0
    /\ horizon = MaxTime
    /\ call = NoCall
    /\ cache = NewCache(0, 1)
    /\ wlock = NoTask
    /\ rlock = {}
    /\ pc = [t \in Tasks |-> "idle"]
    /\ tkey = [t \in Tasks |-> NoKey]
    /\ tresp = [t \in Tasks |-> NoResp]
    /\ telem = [t \in Tasks |-> Nil]
    /\ ret = [t \in Tasks |-> NoRet]
    /\ plan = [t \in Tasks |-> Off]
    /\ touch = <<>>
    /\ setAt = << >>

\* Allow calls, with the calls that refill or remove buckets in between
NextBurst ==
    \/ \E key \in Ids : RLAllow(key)
    \/ RLGetRemainingTokens("a")
    \/ \E maxAge \in MaxAges : RLCleanup(maxAge)
    \/ Tick

SpecBurst == InitBurst /\ [][NextBurst]_vars

\* the tasks of `active` make `calls` calls each: requests served through
\* rateLimitMiddleware or, if `direct`, calls of limiter.Allow
InitMw(active, direct, calls, rpms, bursts, end) ==
    /\ \E rpm \in rpms, burst \in bursts : rl = NewRateLimiter(rpm, burst)
    /\ rlret = NoRlRet
    /\ ledger = NewTimedLedger({"a"})
    /\ rmu = RmuFree
    /\ mw = [t \in Tasks |-> IF t \in active
                             THEN [NoRequest EXCEPT !.left = calls, !.direct = direct]
                             ELSE NoRequest]
    /\ NoPipeline
    /\ now = 0
    /\ horizon = end
    /\ call = NoCall
    /\ cache = NewCache(0, 1)
    /\ wlock = NoTask
    /\ rlock = {}
    /\ pc = [t \in Tasks |-> "idle"]
    /\ tkey = [t \in Tasks |-> NoKey]
    /\ tresp = [t \in Tasks |-> NoResp]
    /\ telem = [t \in Tasks |-> Nil]
    /\ ret = [t \in Tasks |-> NoRet]
    /\ plan = [t \in Tasks |-> Off]
    /\ touch = <<>>
    /\ setAt = << >>

\* the steps of the requests being served
NextServer ==
    \/ \E t \in Tasks, id \in Ids : MwServe(t, id)
    \/ \E t \in Tasks : MwAllowLock(t)
    \/ \E t \in Tasks : MwAllow(t)
    \/ \E t \in Tasks : MwRemainingRLock(t)
    \/ \E t \in Tasks : MwRemaining(t)
    \/ \E t \in Tasks : MwResetRLock(t)
    \/ \E t \in Tasks : MwReset(t)
    \/ \E t \in Tasks : MwDeny(t)
    \/ \E t \in Tasks : MwNext(t)
    \/ Tick

\* two tasks serving requests concurrently; main never calls Cleanup
InitMw2 == InitMw({"t1", "t2"}, FALSE, MaxCalls - 1, {0, 60}, {1, 2}, MaxTime - 1)

SpecMw == InitMw2 /\ [][NextServer]_vars

\* the same server with one request per task, every task being scheduled
\* again and again
InitServer == InitMw({"t1", "t2"}, FALSE, 1, {60}, {1}, 1)

SpecServer == InitServer /\ [][NextServer]_vars /\ WF_vars(NextServer)

\* a Cleanup pass made by a task of its own
CleanupPass(maxAge) ==
    /\ CanLock
    /\ CleanupBody(maxAge)
    /\ UNCHANGED <<cacheVars, pipeVars, rlret, rmu, mw, now, horizon, call>>

\* tasks that call Allow for one identity concurrently (TestTokenBucket_Concurrency,
\* through the limiter) while Cleanup passes are made
InitGrant == InitMw({"t1", "t2"}, TRUE, MaxCalls, RPMs, Bursts, MaxTime)

NextGrant ==
    \/ \E t \in Tasks : TaskAllow(t, "a")
    \/ \E t \in Tasks : MwAllowLock(t)
    \/ \E t \in Tasks : MwAllow(t)
    \/ \E maxAge \in MaxAges : CleanupPass(maxAge)
    \/ Tick

SpecGrant == InitGrant /\ [][NextGrant]_vars

\* rate limiting off, every other variable of the limiter and of the cache
\* unit tests at rest
InitPipeline(caps, ttls, stack, calls, end) ==
    /\ \E cap \in caps, ttl \in ttls : cache = NewCache(cap, ttl)
    /\ horizon = end
    /\ call = NoCall
    /\ wlock = NoTask
    /\ rlock = {}
    /\ pc = [t \in Tasks |-> "idle"]
    /\ tkey = [t \in Tasks |-> NoKey]
    /\ tresp = [t \in Tasks |-> NoResp]
    /\ telem = [t \in Tasks |-> Nil]
    /\ ret = [t \in Tasks |-> NoRet]
    /\ now = 0
    /\ plan = [t \in Tasks |-> Off]
    /\ touch = <<>>
    /\ setAt = << >>
    /\ rl = NoLimiter
    /\ rlret = NoRlRet
    /\ ledger = NoLedger
    /\ rmu = RmuFree
    /\ mw = [t \in Tasks |-> NoRequest]
    /\ request = NoReq
    /\ conn = NewConn
    /\ chain = [NoChain EXCEPT !.stack = stack, !.left = calls]
    /\ seen = NoSeen

\* the requests of the caching tests: any method, URL and Accept header
TestRequests ==
    {[method |-> m, url |-> u, accept |-> a, id |-> "a"] :
        m \in Methods, u \in URLs, a \in Accepts}

\* cachingMiddleware(cache, inner) serving one request after another
\* (TestCachingMiddleware_*)
InitCaching ==
    InitPipeline(1..MaxCapacity, TTLs, <<"caching", "forwarder">>, -1, MaxTime - 1)

NextCaching ==
    \/ \E req \in TestRequests : Serve(req)
    \/ CachingGet
    \/ \E resp \in Responses : ForwardHeader(resp)
    \/ ForwardBody
    \/ CachingStore
    \/ Finish
    \/ Tick

SpecCaching == InitCaching /\ [][NextCaching]_vars


\* the chain main builds with cache and rate limiter enabled
MainChain == <<"timeout", "errorHandling", "rateLimit", "caching", "logging", "forwarder">>

\* the server of main: request_timeout_seconds 1, a cache of one entry, one
\* request per second and a burst of one
InitChain ==
    /\ cache = NewCache(1, 1)
    /\ horizon = MaxTime
    /\ call = NoCall
    /\ wlock = NoTask
    /\ rlock = {}
    /\ pc = [t \in Tasks |-> "idle"]
    /\ tkey = [t \in Tasks |-> NoKey]
    /\ tresp = [t \in Tasks |-> NoResp]
    /\ telem = [t \in Tasks |-> Nil]
    /\ ret = [t \in Tasks |-> NoRet]
    /\ now = 0
    /\ plan = [t \in Tasks |-> Off]
    /\ touch = <<>>
    /\ setAt = << >>
    /\ rl = NewRateLimiter(60, 1)
    /\ rlret = NoRlRet
    /\ ledger = NoLedger
    /\ rmu = RmuFree
    /\ mw = [t \in Tasks |-> NoRequest]
    /\ request = NoReq
    /\ conn = NewConn
    /\ chain = [NoChain EXCEPT !.stack = MainChain, !.left = MaxCalls - 1, !.timeout = 1]
    /\ seen = NoSeen

\* the requests of one client
ClientRequests == {r \in TestRequests : r.accept = "json" /\ r.url.query = ""}

\* a request is accepted only while its deadline is within the observation
ServeChain(req) == now + chain.timeout <= horizon /\ Serve(req)

\* the clock, observed from the moment the handler has set its deadline
ChainTick == chain.h # "idle" /\ Tick

NextChain ==
    \/ \E req \in ClientRequests : ServeChain(req)
    \/ TimeoutStart
    \/ ErrorEnter
    \/ RateLimitAllow
    \/ RateLimitAnswer
    \/ CachingGet
    \/ LoggingEnter
    \/ \E resp \in Responses : ForwardHeader(resp)
    \/ ForwardBody
    \/ Hang
    \/ Panic
    \/ PanicUnwind
    \/ ErrorRecover
    \/ LoggingLog
    \/ CachingStore
    \/ StageReturn
    \/ TimeoutSend
    \/ TimeoutDone
    \/ TimeoutFire
    \/ ChainFinish
    \/ ChainTick

\* every goroutine that can take a step eventually takes one, and the clock
\* moves on
SpecChain == InitChain /\ [][NextChain]_vars /\ WF_vars(NextChain)

\* no server is running: the cache, the limiter and the handler chain are idle
NoServer ==
    /\ cache = NewCache(0, 1)
    /\ horizon = 0
    /\ wlock = NoTask
    /\ rlock = {}
    /\ pc = [t \in Tasks |-> "idle"]
    /\ tkey = [t \in Tasks |-> NoKey]
    /\ tresp = [t \in Tasks |-> NoResp]
    /\ telem = [t \in Tasks |-> Nil]
    /\ ret = [t \in Tasks |-> NoRet]
    /\ now = 0
    /\ plan = [t \in Tasks |-> Off]
    /\ touch = <<>>
    /\ setAt = << >>
    /\ rl = NoLimiter
    /\ rlret = NoRlRet
    /\ ledger = NoLedger
    /\ rmu = RmuFree
    /\ mw = [t \in Tasks |-> NoRequest]
    /\ NoPipeline

\* getClientKey applied to every request with X-Forwarded-For and RemoteAddr
\* of at most MaxLen characters
InitKey ==
    /\ NoServer
    /\ \E xff \in Strs, remoteAddr \in Strs :
          call = [op |-> "getClientKey", xff |-> xff, remoteAddr |-> remoteAddr,
                  done |-> FALSE, ret |-> <<>>]

NextKey == GetClientKeyCall

SpecKey == InitKey /\ [][NextKey]_vars

\* LoadConfig under every combination of sources; a process whose flags were
\* parsed before the call (a test binary) has no proxy flags
InitConfig ==
    /\ NoServer
    /\ \E envfile \in Files, env \in Envs, flags \in Flags, flagfile \in Files,
          parsed \in BOOLEAN :
          /\ parsed => (flags = NoFile /\ flagfile = NoFile)
          /\ call = [op |-> "LoadConfig", envfile |-> envfile, env |-> env, flags |-> flags,
                     flagfile |-> flagfile, parsed |-> parsed, done |-> FALSE,
                     config |-> Defaults]

NextConfig == LoadConfigCall

SpecConfig == InitConfig /\ [][NextConfig]_vars

\* the caching stage has wrapped the writer and called the inner handler,
\* which makes at most MaxCalls calls on it
InitWriter ==
    /\ cache = NewCache(1, 1)
    /\ horizon = 0
    /\ wlock = NoTask
    /\ rlock = {}
    /\ pc = [t \in Tasks |-> "idle"]
    /\ tkey = [t \in Tasks |-> NoKey]
    /\ tresp = [t \in Tasks |-> NoResp]
    /\ telem = [t \in Tasks |-> Nil]
    /\ ret = [t \in Tasks |-> NoRet]
    /\ now = 0
    /\ plan = [t \in Tasks |-> Off]
    /\ touch = <<>>
    /\ setAt = << >>
    /\ rl = NoLimiter
    /\ rlret = NoRlRet
    /\ ledger = NoLedger
    /\ rmu = RmuFree
    /\ mw = [t \in Tasks |-> NoRequest]
    /\ request = NoReq
    /\ conn = NewConn
    /\ chain = [NoChain EXCEPT !.stack = <<"caching", "forwarder">>, !.at = 2,
                               !.phase = "down", !.crw = newCachingResponseWriter]
    /\ seen = NoSeen
    /\ call = [op |-> "writer", direct |-> NewConn, calls |-> <<>>]

NextWriter ==
    \/ \E code \in WriterCodes : InnerWriteHeader(code)
    \/ \E data \in Chunks : InnerWrite(data)

SpecWriter == InitWriter /\ [][NextWriter]_vars

\* timeoutMiddleware(1 s, errorHandlingMiddleware(forwarder)): the timeout
\* stage over a chain that answers, panics or never returns
InitTimeout ==
    /\ cache = NewCache(0, 1)
    /\ horizon = MaxTime - 1
    /\ call = NoCall
    /\ wlock = NoTask
    /\ rlock = {}
    /\ pc = [t \in Tasks |-> "idle"]
    /\ tkey = [t \in Tasks |-> NoKey]
    /\ tresp = [t \in Tasks |-> NoResp]
    /\ telem = [t \in Tasks |-> Nil]
    /\ ret = [t \in Tasks |-> NoRet]
    /\ now = 0
    /\ plan = [t \in Tasks |-> Off]
    /\ touch = <<>>
    /\ setAt = << >>
    /\ rl = NoLimiter
    /\ rlret = NoRlRet
    /\ ledger = NoLedger
    /\ rmu = RmuFree
    /\ mw = [t \in Tasks |-> NoRequest]
    /\ request = NoReq
    /\ conn = NewConn
    /\ chain = [NoChain EXCEPT !.stack = <<"timeout", "errorHandling", "forwarder">>,
                               !.left = MaxCalls - 1, !.timeout = 1]
    /\ seen = NoSeen

NextTimeout ==
    \/ \E req \in ClientRequests : ServeChain(req)
    \/ TimeoutStart
    \/ ErrorEnter
    \/ \E resp \in Responses : ForwardHeader(resp)
    \/ ForwardBody
    \/ Hang
    \/ Panic
    \/ PanicUnwind
    \/ ErrorRecover
    \/ StageReturn
    \/ TimeoutSend
    \/ TimeoutDone
    \/ TimeoutFire
    \/ ChainFinish
    \/ ChainTick

\* every goroutine that can take a step eventually takes one
SpecTimeout == InitTimeout /\ [][NextTimeout]_vars /\ WF_vars(NextTimeout)

\* rateLimitMiddleware(limiter, cachingMiddleware(cache, forwarder)) as main
\* nests them, serving the requests of two clients one after another: a
\* cache of one entry, one request per second and a burst of one
InitAdmission ==
    /\ cache = NewCache(1, 1)
    /\ horizon = MaxTime - 1
    /\ call = NoCall
    /\ wlock = NoTask
    /\ rlock = {}
    /\ pc = [t \in Tasks |-> "idle"]
    /\ tkey = [t \in Tasks |-> NoKey]
    /\ tresp = [t \in Tasks |-> NoResp]
    /\ telem = [t \in Tasks |-> Nil]
    /\ ret = [t \in Tasks |-> NoRet]
    /\ now = 0
    /\ plan = [t \in Tasks |-> Off]
    /\ touch = <<>>
    /\ setAt = << >>
    /\ rl = NewRateLimiter(60, 1)
    /\ rlret = NoRlRet
    /\ ledger = NoLedger
    /\ rmu = RmuFree
    /\ mw = [t \in Tasks |-> NoRequest]
    /\ request = NoReq
    /\ conn = NewConn
    /\ chain = [NoChain EXCEPT !.stack = <<"rateLimit", "caching", "forwarder">>,
                               !.left = MaxCalls]
    /\ seen = NoSeen

\* the requests of the two clients
TwoClients ==
    {[method |-> m, url |-> [path |-> "/a", query |-> ""], accept |-> "json", id |-> i] :
        m \in Methods, i \in Ids}

NextAdmission ==
    \/ \E req \in TwoClients : Serve(req)
    \/ RateLimitAllow
    \/ RateLimitAnswer
    \/ CachingGet
    \/ \E resp \in Responses : ForwardHeader(resp)
    \/ ForwardBody
    \/ CachingStore
    \/ StageReturn
    \/ Finish
    \/ Tick

SpecAdmission == InitAdmission /\ [][NextAdmission]_vars

\* two goroutines, each making MaxCalls - 1 calls on one cache and one limiter
InitLocks ==
    /\ NoServer
    /\ call = [op |-> "locks", path |-> [t \in LockTasks |-> <<>>],
               at |-> [t \in LockTasks |-> 0], waiting |-> [t \in LockTasks |-> FALSE],
               left |-> [t \in LockTasks |-> MaxCalls - 1],
               bmu |-> [k \in Ids |-> NoTask], fatal |-> FALSE]

NextLocks ==
    \/ \E t \in LockTasks, p \in Paths : CallStart(t, p)
    \/ \E t \in LockTasks : CallReturn(t)
    \/ \E t \in LockTasks : LockAnnounce(t)
    \/ \E t \in LockTasks : LockAcquire(t)
    \/ \E t \in LockTasks : Unlock(t)
    \/ \E t \in LockTasks : RLock(t)
    \/ \E t \in LockTasks : RUnlock(t)
    \/ \E t \in LockTasks : BucketLock(t)
    \/ \E t \in LockTasks : BucketUnlock(t)

\* a goroutine that can take a step eventually takes one
SpecLocks == InitLocks /\ [][NextLocks]_vars /\ WF_vars(NextLocks)

\* ================================================================ claims
AllIdle == \A t \in Tasks : pc[t] = "idle"

\* the step in which task t's Set runs its body and returns
SetReturns(t) == pc[t] = "set_body" /\ pc'[t] = "idle"

\* the step in which task t's Get returns found
GetReturnsHit(t) == pc[t] \in {"get_mtf", "move6"} /\ pc'[t] = "idle"

\* the step in which task t's Get of key k does its lookup
GetLooksUp(t, k) ==
    /\ pc[t] = "idle"
    /\ \/ pc'[t] \in {"get_mtf", "get_lock"} /\ tkey'[t] = k
       \/ pc'[t] = "idle" /\ ret'[t] # ret[t] /\ ret'[t].op = "Get" /\ ret'[t].key = k

\* the keys of the recency list, front (most recent) first
RECURSIVE Walk(_, _, _)
Walk(c, n, i) ==
    IF i = 0 \/ n = Root \/ n = Nil THEN <<>>
    ELSE <<c.ekey[n]>> \o Walk(c, c.next[n], i - 1)

ListKeys(c) == Walk(c, c.next[Root], c.len)

\* a Set of a key that is not stored, into a cache that already holds capacity entries
SetIntoFull(t) ==
    SetReturns(t) /\ tkey[t] \notin Stored(cache) /\ Size(cache) = cache.capacity

C1_EvictsExactlyOne ==
    \A t \in Tasks :
        SetIntoFull(t) =>
            /\ Size(cache') = cache.capacity
            /\ Cardinality((Stored(cache) \cup {tkey[t]}) \ Stored(cache')) = 1

\* C1: whenever no call is running, Size() <= capacity; and a Set that inserts
\* a new key into a cache holding capacity entries leaves Size() at capacity
\* and removes exactly one of the entries (the old ones and the new one).
C1_CapacityBound ==
    /\ [](AllIdle => Size(cache) <= cache.capacity)
    /\ [][C1_EvictsExactlyOne]_vars

\* C1 witness: a Set has just evicted an entry of a full cache of capacity >= 1
C1_Witness ==
    /\ AllIdle
    /\ ret["t1"].op = "Set" /\ ret["t1"].evicted \in Keys
    /\ cache.capacity >= 1 /\ Size(cache) = cache.capacity

C2_Step(t) ==
    SetIntoFull(t) =>
        LET order  == Promote(touch, tkey[t])
            victim == order[Len(order)]
        IN  /\ ret'[t].evicted = victim
            /\ Stored(cache') = (Stored(cache) \cup {tkey[t]}) \ {victim}
            /\ \A x \in Stored(cache) \ {victim} :
                 /\ cache'.items[x] = cache.items[x]
                 /\ cache'.eresp[cache.items[x]] = cache.eresp[cache.items[x]]
                 /\ cache'.eexp[cache.items[x]] = cache.eexp[cache.items[x]]

\* C2: a Set that inserts a new key into a full cache evicts exactly the key
\* touched least recently (touches: inserting Set, replacing Set, hitting
\* Get), and every other stored key keeps its entry.
C2_EvictsLeastRecentlyTouched == [][\A t \in Tasks : C2_Step(t)]_vars

\* C2 witness: k1 was stored first and touched again at instant 1, so the
\* insertion of a third key evicted k2 and kept k1
C2_Witness ==
    /\ AllIdle
    /\ ret["t1"].op = "Set" /\ ret["t1"].evicted = "k2"
    /\ cache.capacity = 2 /\ touch = <<"k3", "k1">>

C3_Step(t) ==
    /\ (pc[t] = "idle" /\ pc'[t] = "get_mtf") =>
          /\ tkey'[t] \in DOMAIN setAt
          /\ ~(setAt[tkey'[t]].at + cache.ttl < now)
    /\ GetReturnsHit(t) => ret'[t].found /\ ret'[t].op = "Get"
    /\ \A k \in Stored(cache) :
          /\ (GetLooksUp(t, k) /\ now < setAt[k].at + cache.ttl) => pc'[t] = "get_mtf"
          /\ (GetLooksUp(t, k) /\ now > setAt[k].at + cache.ttl) => pc'[t] = "get_lock"
    /\ (pc[t] = "get_remove" /\ pc'[t] = "idle") =>
          /\ ret'[t].op = "Get" /\ ~ret'[t].found
          /\ tkey[t] \notin Stored(cache')
          /\ Size(cache') = Size(cache) - 1

\* C3: called one at a time, Get finds an entry only if its expiry (the
\* instant of its last Set plus the TTL) is not earlier than the instant Get
\* reads; a stored entry is found by a Get made before the TTL has elapsed;
\* a Get made after the expiry returns not-found and removes the entry, so
\* that Size() is one smaller.
C3_TTLExpiry == [][\A t \in Tasks : C3_Step(t)]_vars

\* C3 witness: a Get found its entry expired, removed it, and the cache is empty
C3_Witness ==
    /\ AllIdle
    /\ ret["t1"].op = "Get" /\ ret["t1"].expired /\ ~ret["t1"].found
    /\ Size(cache) = 0 /\ cache.capacity >= 1

C4_Step(t) ==
    /\ (SetReturns(t) /\ tkey[t] \in Stored(cache)) =>
          LET k      == tkey[t]
              e      == cache.items[k]
              others == Stored(cache) \ {k}
          IN  /\ cache'.items = cache.items
              /\ cache'.eresp[e] = tresp[t]
              /\ cache'.eexp[e] = now + cache.ttl
              /\ ListKeys(cache')[1] = k
              /\ touch'[1] = k
              /\ Size(cache') = Size(cache)
              /\ \A x \in others :
                   /\ cache'.eresp[cache.items[x]] = cache.eresp[cache.items[x]]
                   /\ cache'.eexp[cache.items[x]] = cache.eexp[cache.items[x]]
              /\ Restrict(ListKeys(cache'), others) = Restrict(ListKeys(cache), others)
    /\ GetReturnsHit(t) => ret'[t].resp = setAt[ret'[t].key].resp

\* C4: called one at a time, a Set of a stored key replaces the response,
\* resets the expiry to now + ttl, makes the key the most recently used, and
\* leaves Size() and every other entry (response, expiry, relative order) as
\* they were; a Get that then finds the key returns the response last Set.
C4_SetReplaces == [][\A t \in Tasks : C4_Step(t)]_vars

\* C4 witness: a stored key was Set again with another response, at a later
\* instant, while another key was stored
C4_Witness ==
    /\ AllIdle
    /\ ret["t1"].op = "Set" /\ ret["t1"].existed /\ ret["t1"].key = "k1"
    /\ Stored(cache) = {"k1", "k2"}
    /\ setAt["k1"].resp = "r2" /\ setAt["k1"].at = 1 /\ setAt["k2"].at = 0
    /\ ListKeys(cache) = <<"k1", "k2">>

\* ------------------------------------------------- claims on concurrency
\* the entries of the recency list
InList(c) == {e \in Elems : c.inlist[e]}

\* C5: in every reachable state of concurrent Get, Set and Clear calls the
\* recency list holds at most one entry per key.
C5_OneEntryPerKey ==
    \A e1 \in InList(cache), e2 \in InList(cache) :
        cache.ekey[e1] = cache.ekey[e2] => e1 = e2

\* task t is about to change the key map or the recency order
Mutating(t) ==
    pc[t] \in {"set_body", "clear_body", "get_remove",
               "move1", "move2", "move3", "move4", "move5", "move6"}

\* task t is about to read the recency order
Reading(t) == pc[t] = "get_mtf"

\* C6: every mutation of the key map or the recency order is made by a task
\* that holds the cache lock exclusively, and no task mutates while another
\* mutates or reads.
C6_MutationUnderExclusiveLock ==
    /\ \A t \in Tasks : Mutating(t) => wlock = t
    /\ \A t \in Tasks : \A u \in Tasks \ {t} :
          ~(Mutating(t) /\ (Mutating(u) \/ Reading(u)))

\* C7: the removal that ends the expired branch of Get removes only an entry
\* that is expired when it is removed: an entry a completed Set has stored
\* or refreshed in the meantime is not removed.
C7_RemovesOnlyExpired ==
    [][\A t \in Tasks :
          (pc[t] = "get_remove" /\ pc'[t] = "idle") =>
              \A k \in Stored(cache) \ Stored(cache') :
                  Expired(cache, cache.items[k], now)]_vars

\* every task has made its Set and its Get
AllDone == \A t \in Tasks : plan[t].mode = "done"

\* C8: tasks that concurrently Set and then Get their own keys, with room for
\* all keys and no entry expiring, each find exactly the response they stored.
C8_OwnKeyReadBack ==
    \A t \in Tasks :
        plan[t].mode = "done" =>
            /\ ret[t].op = "Get" /\ ret[t].key = OwnKey[t]
            /\ ret[t].found /\ ret[t].resp = OwnResp[t]

\* C8 witness: all tasks are done, and two Gets ran their promotions at the
\* same time so that the ring is no longer a list of the three entries
C8_Witness ==
    /\ AllDone
    /\ \A t \in Tasks : ret[t].found
    /\ Len(ListKeys(cache)) < Cardinality(Tasks)

\* ------------------------------------------------ claims on the limiter
\* C9: every token bucket holds between 0 tokens and its capacity after every
\* Allow, Tokens, GetRemainingTokens, GetResetTime, Stats and Cleanup.
C9_TokensWithinBounds ==
    \A k \in DOMAIN rl.buckets :
        /\ 0 <= rl.buckets[k].tokens
        /\ rl.buckets[k].tokens <= rl.buckets[k].capacity

\* C9 witness: after two idle seconds a bucket that had been emptied is back
\* at its capacity, where the refill was clamped
C9_Witness ==
    /\ rlret.op \in {"GetRemainingTokens", "GetResetTime", "Stats"}
    /\ \E k \in DOMAIN rl.buckets :
          /\ rl.buckets[k].capacity = TokenUnit /\ rl.buckets[k].refillRate = 60
          /\ rl.buckets[k].tokens = rl.buckets[k].capacity
          /\ rl.buckets[k].lastRefill = 3
    /\ \E k \in DOMAIN rl.buckets : rl.buckets[k].tokens < rl.buckets[k].capacity

\* the bucket Allow(key) works on: the stored one, or a new full one
BucketBefore(key) ==
    IF key \in DOMAIN rl.buckets THEN rl.buckets[key]
    ELSE [tokens |-> rl.burstSize * TokenUnit, capacity |-> rl.burstSize * TokenUnit,
          refillRate |-> rl.rpm, lastRefill |-> now]

\* the step is a completed Allow(key)
AllowReturns(key) ==
    rlret'.flip # rlret.flip /\ rlret'.op = "Allow" /\ rlret'.key = key

C10_Step(key) ==
    AllowReturns(key) =>
        LET b        == BucketBefore(key)
            elapsed  == now - b.lastRefill
            sum      == b.tokens + elapsed * b.refillRate
            refilled == IF sum > b.capacity THEN b.capacity ELSE sum
        IN  /\ rlret'.allowed = (refilled >= TokenUnit)
            /\ rlret'.allowed => rl'.buckets[key].tokens = refilled - TokenUnit
            /\ ~rlret'.allowed => rl'.buckets[key].tokens = refilled
            /\ rl'.buckets[key].lastRefill = now

\* C10: Allow refills the bucket to the current instant, returns true exactly
\* when the refilled count is at least one token, takes exactly one token
\* when it returns true and leaves the refilled count when it returns false.
C10_AllowRefillsThenConsumes == [][\A key \in Ids : C10_Step(key)]_vars

\* C10 witness: an Allow was refused on a bucket that the refill had brought
\* to half a token, and the half token is still there
C10_Witness ==
    /\ rlret.op = "Allow" /\ ~rlret.allowed
    /\ rl.buckets[rlret.key].tokens = 30
    /\ rl.buckets[rlret.key].lastRefill = 1

\* the buckets of the identities other than key are the same after the step
OthersUntouched(key) ==
    /\ DOMAIN rl'.buckets \ {key} = DOMAIN rl.buckets \ {key}
    /\ \A k \in DOMAIN rl.buckets \ {key} : rl'.buckets[k] = rl.buckets[k]

\* the first Allow of an identity without a bucket creates its bucket, full
C11_Creates(key) ==
    (AllowReturns(key) /\ key \notin DOMAIN rl.buckets) =>
        /\ DOMAIN rl'.buckets = DOMAIN rl.buckets \cup {key}
        /\ OthersUntouched(key)
        /\ rl'.buckets[key].capacity = rl.burstSize * TokenUnit
        /\ rl'.buckets[key].refillRate * 60 = rl.rpm * TokenUnit
        /\ rl'.buckets[key].tokens
              = rl.burstSize * TokenUnit - (IF rlret'.allowed THEN TokenUnit ELSE 0)

\* while no time has elapsed since the bucket was created, an Allow succeeds
\* exactly when fewer than burst-size Allow calls have succeeded on it
C11_Burst(key) ==
    (AllowReturns(key) /\ key \in DOMAIN ledger /\ ledger'[key].born = now) =>
        LET before == IF key \in DOMAIN rl.buckets THEN ledger[key].n ELSE 0 IN
        rlret'.allowed = (before < rl.burstSize)

\* t seconds after an Allow was refused, Allow succeeds as long as fewer than
\* min(capacity, floor(t * r)) calls have succeeded since the refusal
C11_Refilled(key) ==
    (AllowReturns(key) /\ key \in DOMAIN ledger /\ key \in DOMAIN rl.buckets
                       /\ ledger[key].dry >= 0) =>
        LET owed == min(rl.burstSize, ((now - ledger[key].dry) * rl.rpm) \div 60) IN
        ledger[key].since < owed => rlret'.allowed

\* C11: the first Allow of an unseen identity creates exactly one bucket,
\* full, with capacity burst size and refill rate rpm / 60; with no time
\* elapsing exactly burst-size Allow calls succeed and the next fails; after
\* waiting t seconds at least min(capacity, floor(t * r)) more succeed.
C11_BurstThenRefill ==
    [][\A key \in Ids : C11_Creates(key) /\ C11_Burst(key) /\ C11_Refilled(key)]_vars

\* C11 witness: burst 2 at one token a second; both tokens were taken at 0 s,
\* a call was refused at 1 s, and two calls have succeeded after a wait of 2 s
C11_Witness ==
    /\ rl.rpm = 60 /\ rl.burstSize = 2
    /\ rlret.op = "Allow" /\ rlret.key = "a" /\ rlret.allowed
    /\ ledger["a"].born = 0 /\ ledger["a"].dry = 1 /\ ledger["a"].since = 2
    /\ now = 3

\* C12: Allow(a) changes the bucket of a only, and its result and a's new
\* bucket are determined by a's bucket, the configuration and the clock,
\* whatever was done to the buckets of other identities.
C12_AllowTouchesOwnBucketOnly ==
    [][\A key \in Ids :
          AllowReturns(key) =>
              /\ OthersUntouched(key)
              /\ rlret'.allowed = BucketAllow(BucketBefore(key), now).ok
              /\ rl'.buckets[key] = BucketAllow(BucketBefore(key), now).bucket]_vars

\* C12 witness: the bucket of identity a is exhausted and b, which has a
\* bucket of its own, has just been admitted at the same instant
C12_Witness ==
    /\ rl.burstSize = 1 /\ rl.rpm = 30
    /\ DOMAIN rl.buckets = {"a", "b"}
    /\ rl.buckets["a"].tokens = 0 /\ rl.buckets["a"].lastRefill = 0
    /\ rl.buckets["b"].lastRefill = 0
    /\ rlret.op = "Allow" /\ rlret.key = "b" /\ rlret.allowed /\ now = 0

\* the token count of bucket tb brought up to the instant t
RefilledCount(tb, t) ==
    LET sum == tb.tokens + (t - tb.lastRefill) * tb.refillRate IN
    IF sum > tb.capacity THEN tb.capacity ELSE sum

\* the step is a completed Cleanup
CleanupReturns == rlret'.flip # rlret.flip /\ rlret'.op = "Cleanup"

\* C14: Cleanup(maxAge) removes a bucket if and only if its last refill is
\* older than now - maxAge and, refilled to now, it is full; it adds none.
C14_CleanupRemovesIdleAndFull ==
    [][CleanupReturns =>
          /\ DOMAIN rl'.buckets \subseteq DOMAIN rl.buckets
          /\ \A k \in DOMAIN rl.buckets :
                (k \notin DOMAIN rl'.buckets) <=>
                    /\ rl.buckets[k].lastRefill < now - rlret'.value
                    /\ RefilledCount(rl.buckets[k], now) >= rl.buckets[k].capacity]_vars

\* C14 witness: a pass with maxAge 1 s has kept, and refilled, a bucket that
\* was idle for 2 s and holds one of its two tokens, and no other is left
C14_Witness ==
    /\ rlret.op = "Cleanup" /\ rlret.value = 1 /\ now = 2
    /\ rl.rpm = 30 /\ rl.burstSize = 2
    /\ DOMAIN rl.buckets = {"b"}
    /\ rl.buckets["b"].tokens = TokenUnit /\ rl.buckets["b"].lastRefill = 2

\* the step is a completed GetRemainingTokens(key)
RemainingReturns(key) ==
    rlret'.flip # rlret.flip /\ rlret'.op = "GetRemainingTokens" /\ rlret'.key = key

\* C17: GetRemainingTokens returns the floor of the token count refilled to
\* now and takes no token; without a bucket it returns the burst size and
\* creates no bucket.
C17_RemainingIsFloorAndFree ==
    [][\A key \in Ids :
          RemainingReturns(key) =>
              /\ DOMAIN rl'.buckets = DOMAIN rl.buckets
              /\ OthersUntouched(key)
              /\ IF key \in DOMAIN rl.buckets
                 THEN LET refilled == RefilledCount(rl.buckets[key], now) IN
                      /\ rlret'.value * TokenUnit <= refilled
                      /\ refilled < (rlret'.value + 1) * TokenUnit
                      /\ rl'.buckets[key].tokens = refilled
                 ELSE rlret'.value = rl.burstSize]_vars

\* C17 witness: with burst 3, after two Allow calls, it returns 1; a
\* half token has been refilled since and is not counted
C17_Witness ==
    /\ rlret.op = "GetRemainingTokens" /\ rlret.key = "a" /\ rlret.value = 1
    /\ rl.burstSize = 3 /\ rl.rpm = 30 /\ now = 1
    /\ rl.buckets["a"].tokens = TokenUnit + 30

\* the step is a completed GetResetTime(key)
ResetReturns(key) ==
    rlret'.flip # rlret.flip /\ rlret'.op = "GetResetTime" /\ rlret'.key = key

\* C18: GetResetTime returns now exactly when the identity has no bucket or
\* a full one; for a deficit d > 0 it returns now + d / refillRate, the
\* instant at which the bucket is full again, which is after now.
C18_ResetIsInstantOfFullBucket ==
    [][\A key \in Ids :
          ResetReturns(key) =>
              LET full == \/ key \notin DOMAIN rl.buckets
                          \/ RefilledCount(rl.buckets[key], now) >= rl.buckets[key].capacity
              IN  /\ (rlret'.value = now) <=> full
                  /\ ~full =>
                        /\ rlret'.value > now
                        /\ (rlret'.value - now) * rl.buckets[key].refillRate
                              = rl.buckets[key].capacity
                                    - RefilledCount(rl.buckets[key], now)]_vars

\* ------------------------------------------- claims on concurrent calls
\* the instants, in order, of the Allow calls granted to identity a
GrantTimes == ledger["a"].times

\* C13: whatever the interleaving of concurrent Allow calls of one identity
\* and Cleanup passes, the Allow calls granted within any interval of t
\* seconds number at most burst size + t * refill rate.
C13_NoTokenGrantedTwice ==
    \A i \in 1..Len(GrantTimes) : \A j \in i..Len(GrantTimes) :
        (j - i + 1) * TokenUnit
            <= rl.burstSize * TokenUnit + (GrantTimes[j] - GrantTimes[i]) * rl.rpm

\* C13 witness: at one token a second and burst 1, a call was granted at
\* 0 s, a Cleanup pass removed the refilled bucket, a call at 2 s re-created
\* it and was granted, and the call of the other task, made at the same
\* instant, was refused
C13_Witness ==
    /\ rl.rpm = 60 /\ rl.burstSize = 1
    /\ GrantTimes = <<0, 2>>
    /\ ledger["a"].born = 2 /\ ledger["a"].dry = 2
    /\ mw["t1"].pc = "idle" /\ mw["t1"].allowed
    /\ mw["t2"].pc = "idle" /\ ~mw["t2"].allowed /\ mw["t2"].left < mw["t1"].left

\* no request is being served and none is to come
Quiet == \A t \in Tasks : mw[t].pc = "idle" /\ mw[t].left = 0

\* C15: in the running server, once the clients have stopped sending
\* requests, the bucket of every identity is eventually removed.
C15_StaleBucketsEventuallyRemoved ==
    \A id \in Ids : (Quiet /\ id \in DOMAIN rl.buckets) ~> (id \notin DOMAIN rl.buckets)

\* C16: Allow holds rl.mu exclusively only to create a bucket, and an Allow
\* for an identity that has a bucket never waits for the exclusive lock held
\* by an Allow for another identity that has one.
C16_ExistingBucketsDoNotContend ==
    /\ \A t \in Tasks :
          (mw[t].pc = "allow" /\ mw[t].id \in DOMAIN rl.buckets) => rmu.w # t
    /\ \A t \in Tasks : \A u \in Tasks \ {t} :
          ~ /\ mw[t].pc = "allow" /\ rmu.w = t
            /\ mw[u].pc = "allow_lock"
            /\ mw[t].id # mw[u].id
            /\ {mw[t].id, mw[u].id} \subseteq DOMAIN rl.buckets

\* task t has answered a request
Answered(t) == mw[t].pc = "idle" /\ mw[t].resp.headers # {}

\* C19: a request that Allow refused is answered without calling the next
\* stage, with status 429, Content-Type application/json, the body below,
\* X-RateLimit-Limit = rpm, X-RateLimit-Remaining = 0 and a Retry-After that
\* is a non-negative number of seconds up to the reset instant.
C19_DeniedGets429 ==
    \A t \in Tasks :
        (Answered(t) /\ ~mw[t].allowed) =>
            /\ ~mw[t].resp.next
            /\ mw[t].resp.status = 429
            /\ {"Content-Type", "X-RateLimit-Limit", "X-RateLimit-Remaining", "Retry-After"}
                  \subseteq mw[t].resp.headers
            /\ mw[t].resp.ctype = "application/json"
            /\ mw[t].resp.body
                  = "{\"error\":\"rate_limit_exceeded\",\"message\":\"Too many requests\"}"
            /\ mw[t].resp.limit = rl.rpm
            /\ mw[t].resp.remaining = 0
            /\ mw[t].resp.retry >= 0

\* C20: an admitted request reaches the next stage with the three headers
\* set, and X-RateLimit-Remaining is the floor of the tokens that were left
\* when its own token had just been taken.
C20_HeadersFromAdmissionRead ==
    \A t \in Tasks :
        (Answered(t) /\ mw[t].allowed) =>
            /\ mw[t].resp.next
            /\ {"X-RateLimit-Limit", "X-RateLimit-Remaining", "X-RateLimit-Reset"}
                  \subseteq mw[t].resp.headers
            /\ mw[t].resp.limit = rl.rpm
            /\ mw[t].resp.remaining = mw[t].after \div TokenUnit

\* C21 (as stated): the response to an admitted request carries neither
\* X-RateLimit-Reset nor Retry-After; the two are set only with a 429.
C21_ResetAndRetryOnlyOn429 ==
    \A t \in Tasks :
        (Answered(t) /\ mw[t].allowed) =>
            mw[t].resp.headers \cap {"X-RateLimit-Reset", "Retry-After"} = {}

\* C21 (amended): the stage sets Retry-After only with a 429; an admitted
\* request leaves the stage with X-RateLimit-Limit, X-RateLimit-Remaining
\* and X-RateLimit-Reset set and without Retry-After.
C21_RetryAfterOnlyOn429 ==
    \A t \in Tasks :
        Answered(t) =>
            /\ "Retry-After" \in mw[t].resp.headers
                  <=> (~mw[t].allowed /\ mw[t].resp.status = StatusTooManyRequests)
            /\ mw[t].allowed =>
                  /\ mw[t].resp.next
                  /\ mw[t].resp.headers
                        = {"X-RateLimit-Limit", "X-RateLimit-Remaining", "X-RateLimit-Reset"}

\* one request was admitted and one refused
C21_Witness ==
    /\ Answered("t1") /\ mw["t1"].allowed /\ "X-RateLimit-Reset" \in mw["t1"].resp.headers
    /\ Answered("t2") /\ ~mw["t2"].allowed /\ "Retry-After" \in mw["t2"].resp.headers

\* ------------------------------------------------------- caching stage
\* the caching stage has just been called
CachingCalled == chain.phase = "down" /\ Stage = "caching"

\* the entry the cache holds for the request's key, read from the cache's
\* fields, and whether it has not expired
EntryOf(req) == cache.items[req.method \o "|" \o URLString(req.url)]

LiveEntry(req) == EntryOf(req) # Nil /\ ~(now > cache.eexp[EntryOf(req)])

C23_XCacheReachesClient ==
    Returned =>
        /\ seen.xcache \in {"HIT", "MISS", "BYPASS"}
        /\ seen.xcache = "HIT" <=> seen.forwarded = 0
        /\ conn.sent["X-Cache"] = << <<seen.xcache>> >>

\* a step that creates or replaces the entry of key k
Stores(k) ==
    /\ cache'.items[k] # Nil
    /\ \/ cache.items[k] = Nil
       \/ cache'.eresp[cache'.items[k]] # cache.eresp[cache.items[k]]
       \/ cache'.eexp[cache'.items[k]] # cache.eexp[cache.items[k]]
       \/ chain.phase = "up" /\ Stage = "caching" /\ seen'.xcache = "MISS" /\ chain.cacheKey = k

\* no value of the response's Cache-Control header contains the directive
NoDirective(hdr, sub) ==
    \A i \in 1..Len(hdr["Cache-Control"]) : ~Contains(hdr["Cache-Control"][i], sub)

\* C24: an entry is created or replaced only for a GET whose response had a
\* final status below 400 and a Cache-Control header containing neither
\* no-cache nor private.
C24_OnlyEligibleStored ==
    [][\A k \in Keys :
          Stores(k) =>
              /\ request.method = "GET"
              /\ conn.wrote /\ conn.status < 400
              /\ NoDirective(conn.sent, "no-cache")
              /\ NoDirective(conn.sent, "private")]_vars

\* C25: a response is stored only for a GET answered with a 2xx status.
C25_Only2xxStored ==
    [][\A k \in Keys :
          Stores(k) =>
              /\ request.method = "GET"
              /\ conn.status >= 200 /\ conn.status < 300]_vars

\* C26: a repeat of a request whose response was stored (X-Cache: MISS),
\* made before the TTL has elapsed and before the entry was evicted, is
\* answered X-Cache: HIT with the status and the body the first client
\* received, and the forwarder is not called.
C26_RepeatIsHit ==
    (Returned /\ seen.due # << >>) =>
        /\ seen.xcache = "HIT"
        /\ seen.forwarded = 0
        /\ conn.status = seen.due[1].status
        /\ conn.body = seen.due[1].body
        /\ conn.sent["X-Cache"] = << <<"HIT">> >>

C26_Witness ==
    /\ Returned /\ seen.due # << >> /\ seen.xcache = "HIT"
    /\ conn.body = <<"b2">> /\ now > seen.due[1].at

\* C27: the cache key is method, "|" and URL and nothing else: of all
\* requests, exactly those with the method and URL of the request in service
\* have its key; a response served from the cache was stored for the same
\* method and URL, whatever the Accept headers of the two requests.
C27_KeyIsMethodAndURL ==
    chain.cacheKey # NoKey =>
        /\ chain.cacheKey = request.method \o "|" \o URLString(request.url)
        /\ \A r \in TestRequests :
              (generateCacheKey(r) = chain.cacheKey)
                  <=> (r.method = request.method /\ r.url = request.url)
        /\ (Returned /\ seen.due # << >>) =>
              /\ seen.due[1].req.method = request.method
              /\ seen.due[1].req.url = request.url
              /\ seen.xcache = "HIT"

C27_Witness ==
    /\ Returned /\ seen.due # << >> /\ seen.xcache = "HIT"
    /\ seen.due[1].req.accept # request.accept
    /\ request.url.query = "x=1"
    /\ cache.items["GET|/a"] # Nil


\* the order of the stages as the specification gives it, outermost first
ClaimedOrder == <<"errorHandling", "timeout", "logging", "rateLimit", "caching", "forwarder">>

IsPrefix(s, t) == Len(s) <= Len(t) /\ \A i \in 1..Len(s) : s[i] = t[i]

\* the handler has returned and its goroutine has ended
Completed == chain.h = "returned" /\ chain.phase = "done"

\* C28: a request passes the stages in the order panic isolation, timeout,
\* logging, rate limiting, caching, forwarder, so the panic-isolation stage
\* encloses the timeout stage and the logging stage records the status of
\* every answer, a 429 of the rate limiter and a cache HIT included.
C28_StageOrder ==
    /\ IsPrefix(seen.order, ClaimedOrder)
    /\ (Completed /\ seen.panics = 0 /\ ~seen.timedout
          /\ (conn.status = StatusTooManyRequests \/ seen.xcache = "HIT"))
       => seen.logged = conn.status

\* C29: a panic in a stage inside the panic-isolation stage, before or after
\* part of the response was written, is recovered, and the client of a request
\* that did not time out receives status 500 with the JSON error body.
C29_PanicIs500 ==
    /\ (chain.phase \in {"up", "done"} /\ chain.at <= 1 /\ seen.panics > 0) => seen.recovered
    /\ (Completed /\ seen.panics > 0 /\ ~seen.timedout)
       => /\ conn.status = StatusInternalServerError
          /\ conn.sent["Content-Type"] = <<<<"application/json">>>>
          /\ conn.body = PanicBody

\* C30: when the deadline passes while the rest of the chain is still running
\* the handler returns after answering 504 with the JSON error body, and the
\* handler returns in every execution, also when the rest of the chain never
\* completes.
C30_TimeoutIs504 ==
    /\ [](seen.timedout /\ chain.at >= 2
            => /\ conn.status = StatusGatewayTimeout
               /\ conn.sent["Content-Type"] = <<<<"application/json">>>>
               /\ conn.body = TimeoutBody)
    /\ ((chain.h = "select") ~> (chain.h = "returned"))


\* C31: exactly one stage produces the terminal response: a request the
\* timeout stage answered has status 504 and the timeout body alone, whatever
\* the inner chain was doing at the deadline, and a request the inner chain completed
\* without the deadline firing has no 504 and no timeout body.
C31_OneTerminalResponse ==
    /\ seen.timedout
       => /\ conn.status = StatusGatewayTimeout
          /\ conn.body = TimeoutBody
    /\ (Completed /\ ~seen.timedout)
       => /\ conn.status # StatusGatewayTimeout
          /\ \A i \in 1..Len(conn.body) : conn.body[i] # TimeoutBody[1]


Has(s, c) == \E i \in 1..Len(s) : s[i] = c

\* C32: getClientKey returns the part of X-Forwarded-For before its first
\* comma, untrimmed, when the header is not empty (all of it when it has no
\* comma); otherwise the peer address without its last ':' and what follows
\* (all of it when it has no ':'); otherwise, the address being empty,
\* "unknown".
C32_ClientKey ==
    (call.op = "getClientKey" /\ call.done) =>
        LET xff == call.xff
            addr == call.remoteAddr
            key == call.ret
        IN  /\ (xff # <<>> /\ Has(xff, ","))
               => /\ ~Has(key, ",")
                  /\ Len(key) < Len(xff)
                  /\ xff[Len(key) + 1] = ","
                  /\ key = SubSeq(xff, 1, Len(key))
            /\ (xff # <<>> /\ ~Has(xff, ",")) => key = xff
            /\ (xff = <<>> /\ addr # <<>> /\ Has(addr, ":"))
               => /\ Len(key) < Len(addr)
                  /\ addr[Len(key) + 1] = ":"
                  /\ ~Has(SubSeq(addr, Len(key) + 2, Len(addr)), ":")
                  /\ key = SubSeq(addr, 1, Len(key))
            /\ (xff = <<>> /\ addr # <<>> /\ ~Has(addr, ":")) => key = addr
            /\ (xff = <<>> /\ addr = <<>>) => key = Unknown

\* a forwarded-for list whose first address is followed by a blank is cut at
\* the comma and keeps the blank
C32_Witness ==
    /\ call.op = "getClientKey" /\ call.done
    /\ call.xff = <<"1", " ", ",">>
    /\ call.ret = <<"1", " ">>


\* the value the environment supplies for an option, Absent if none
EnvValue(o) ==
    IF o = "Port" THEN Atoi(call.env.Port)
    ELSE IF call.env.Backend = "" THEN Absent ELSE call.env.Backend

\* the values the precedence flag > environment > file > default allows for
\* an option (with two files, either file's value)
Resolved(o) ==
    IF call.flags[o] # Absent THEN {call.flags[o]}
    ELSE IF EnvValue(o) # Absent THEN {EnvValue(o)}
    ELSE IF call.flagfile[o] # Absent \/ call.envfile[o] # Absent
    THEN {call.flagfile[o], call.envfile[o]} \ {Absent}
    ELSE {Defaults[o]}

\* C33: LoadConfig resolves every option by the precedence flag > environment
\* variable > config file > default, also when the file is named by -config.
C33_Precedence ==
    (call.op = "LoadConfig" /\ call.done) => \A o \in Options : call.config[o] \in Resolved(o)


\* the bytes written by a sequence of calls, in order
RECURSIVE Written(_)
Written(calls) ==
    IF calls = <<>> THEN <<>> ELSE Written(SubSeq(calls, 1, Len(calls) - 1)) \o calls[Len(calls)].data

\* the first status a sequence of calls writes: 200 when it writes a body first
FirstStatus(calls) == IF calls[1].op = "WriteHeader" THEN calls[1].code ELSE StatusOK

\* C34: whatever WriteHeader and Write calls the inner handler makes on the
\* interposing writer, the client receives the statuses and bytes it would
\* receive without the caching stage, the buffer holds all bytes written, and
\* the captured status is the first status written.
C34_WriterMirrors ==
    call.op = "writer" =>
        /\ conn.status = call.direct.status
        /\ conn.info = call.direct.info
        /\ conn.body = call.direct.body
        /\ chain.crw.body = Written(call.calls)
        /\ call.calls # <<>> => chain.crw.statusCode = FirstStatus(call.calls)


\* the goroutine of the timeout stage is at its send on the done channel
AtSend == chain.phase = "up" /\ chain.at = 1

\* C35: after the timeout stage answered 504 and returned, the goroutine that
\* runs the rest of the chain is not blocked by the stage: when the chain
\* finishes, its send on the done channel completes with no receiver and the
\* goroutine ends.
C35_BackgroundTaskEnds == (seen.timedout /\ AtSend) ~> (chain.phase = "done")

\* the handler has answered 504 and returned, and the goroutine has ended
C35_Witness == seen.timedout /\ chain.h = "returned" /\ chain.phase = "done"


\* the stage has been entered by the request being served
Entered(stage) == \E i \in 1..Len(seen.order) : seen.order[i] = stage

\* the tokens (in token units) the bucket of the request's identity holds at
\* this instant, refill included: a bucket not yet created is full
TokensNow ==
    IF request.id \in DOMAIN rl.buckets
    THEN Tokens(rl.buckets[request.id], now).tokens
    ELSE rl.burstSize * TokenUnit

\* the request being served was refused by the limiter
Refused == Entered("rateLimit") /\ chain.phase # "idle" /\ ~chain.allowed

\* C36: admission is decided before the cache is consulted: the admission
\* step takes exactly one token from the identity's bucket when it admits
\* (also for a request then served from the cache) and none when it refuses,
\* and a refused request is answered 429 while the cache is neither read nor
\* changed and the forwarder is not called, even when a fresh entry exists.
C36_AdmissionBeforeCache ==
    [][/\ (chain.phase = "down" /\ Stage = "rateLimit" /\ chain' # chain)
          => /\ ~Entered("caching") /\ cache' = cache
             /\ rl'.buckets[request.id].tokens
                   = TokensNow - (IF chain'.allowed THEN TokenUnit ELSE 0)
             /\ chain'.allowed <=> (TokensNow >= TokenUnit)
       /\ (CachingCalled /\ chain' # chain) => chain.allowed
       /\ (Refused /\ request' = request)
          => /\ cache' = cache
             /\ ~Entered("caching")' /\ seen'.forwarded = 0
             /\ conn'.wrote => conn'.status = StatusTooManyRequests
      ]_vars

\* a request refused with 429 while the cache holds a fresh entry for its key
C36_Witness ==
    /\ Refused /\ conn.status = StatusTooManyRequests
    /\ request.method = "GET" /\ LiveEntry(request)


\* the keys of the entries that are elements of the recency list
ElementKeys(c) == {c.ekey[e] : e \in {x \in Elems : c.inlist[x]}}

\* C37: whenever no call holds the cache's lock exclusively, the keys of the
\* lookup map are the keys of the entries in the recency list, and Size() is
\* the number of keys a lookup can find.
C37_MapMatchesList ==
    wlock = NoTask =>
        /\ Stored(cache) = ElementKeys(cache)
        /\ Size(cache) = Cardinality(Stored(cache))


\* the locks goroutine t holds
HoldsCache(t) == wlock = t \/ t \in rlock

HoldsMap(t) == rmu.w = t \/ t \in rmu.r

HoldsBucket(t) == \E k \in Ids : call.bmu[k] = t

\* C38: no interleaving of calls on the cache and the limiter deadlocks: a
\* bucket lock is only taken and held under the limiter's map lock, no lock
\* of the limiter is held together with the cache's, a goroutine that is in no
\* call holds no lock and never released one it did not hold, and every call
\* returns.
C38_NoDeadlock ==
    /\ [](call.op = "locks" =>
            /\ ~call.fatal
            /\ \A t \in LockTasks :
                  /\ HoldsBucket(t) => HoldsMap(t)
                  /\ ~(HoldsCache(t) /\ HoldsMap(t))
                  /\ call.at[t] = 0 => ~HoldsCache(t) /\ ~HoldsMap(t) /\ ~HoldsBucket(t))
    /\ \A t \in LockTasks : (call.op = "locks" /\ call.at[t] # 0) ~> (call.at[t] = 0)

\* a Get on an expired entry waits for the write lock while the other
\* goroutine holds the read lock
C38_Witness ==
    /\ call.op = "locks"
    /\ call.path["t1"] = GetExpiredPath /\ call.at["t1"] = 3 /\ call.waiting["t1"]
    /\ "t2" \in rlock


\* the response being written is a HIT on an entry that another client's
\* request populated
HitForOther ==
    /\ conn.wrote /\ seen.xcache = "HIT"
    /\ chain.cacheKey \in DOMAIN seen.miss
    /\ seen.miss[chain.cacheKey].req.id # request.id

\* C39: a HIT served to a client other than the one whose request populated
\* the entry carries, for each of X-RateLimit-Limit, X-RateLimit-Remaining
\* and X-RateLimit-Reset, the one value the rate-limit stage set for this
\* request and nothing replayed from the entry.
C39_HitCarriesOwnRateLimit ==
    HitForOther => \A h \in AdmitHeaders : Len(conn.sent[h]) = 1

====
